---- MODULE Spec2Model ----
(***************************************************************************)
(* A model of the mcp-clickhouse gateway: the read-only negotiator, the    *)
(* query execution engine (run_select_query on the shared thread pool,     *)
(* with its 30 second timeout) and the paginated table listing.            *)
(*                                                                         *)
(* Spec      the query execution engine (mcp_server.py)                    *)
(* PageSpec  the paginated listing and its token cache                     *)
(***************************************************************************)
EXTENDS Integers, Sequences, FiniteSets, TLC

(***************************************************************************)
(* Bounds of the model.                                                    *)
(***************************************************************************)
\* Number of run_select_query calls followed from submission to return.
MaxCalls == 2
\* Time advances by at most this many seconds in one step.
TickStep == 15
\* No caller is followed for longer than this many seconds.
MaxWait == 45

\* A database holds at most this many tables.
MaxTables == 3
\* page_size ranges over 1 .. MaxPageSize.
MaxPageSize == 2
\* Number of tokens minted in one run.
MaxTokens == 3
\* The pagination clock advances by this many seconds in one step.
PageTickStep == 3600
\* The pagination clock stops here.
MaxPageTime == 3600

\* CLICKHOUSE_SERVERS names at most this many servers.
MaxServers == 2
\* The clock of the expiry runs advances by this many seconds in one step.
TtlTickStep == 1800
\* The clock of the expiry runs stops here.
MaxTtlTime == 5400
\* Number of list_tables calls that run at the same time, one per caller.
MaxCallers == 3

(***************************************************************************)
(* Program constants.                                                      *)
(***************************************************************************)
\* QUERY_EXECUTOR = ThreadPoolExecutor(max_workers=10)
max_workers == 10
SELECT_QUERY_TIMEOUT_SECS == 30
\* Time to live of a pagination cache entry: one hour.
PAGINATION_TTL_SECS == 3600

Calls == 1 .. MaxCalls

(***************************************************************************)
(* SQL texts, as token sequences.  The gateway passes the text through     *)
(* unread; the three texts are a plain read, a text that begins with a     *)
(* mutating keyword, and a read followed by a mutating sub-statement.      *)
(***************************************************************************)
Q_SELECT == <<"SELECT", "1">>
Q_DROP == <<"DROP", "TABLE", "t">>
Q_STACKED == <<"SELECT", "1", ";", "DROP", "TABLE", "t">>
Queries == {Q_SELECT, Q_DROP, Q_STACKED}
NoQuery == <<>>

(***************************************************************************)
(* Python values that the code tests with `if x:` and `==`.  A value       *)
(* carries its type: == between a SettingDef (a named tuple) and a str is  *)
(* False whatever they hold.                                               *)
(***************************************************************************)
PyNone == [type |-> "NoneType", value |-> ""]
PyStr(s) == [type |-> "str", value |-> s]
\* clickhouse_connect's SettingDef(name, value, readonly): the code reads .value
SettingDef(v) == [type |-> "SettingDef", value |-> v]
PyTruthy(x) == IF x.type = "NoneType" THEN FALSE
               ELSE IF x.type = "str" THEN x.value # ""
               ELSE TRUE
PyEq(x, y) == x.type = y.type /\ x.value = y.value

\* What client.server_settings.get("readonly") can be.
ReadonlyValues == {"0", "1", "2"}
ServerReadonlySettings == {PyNone} \cup {SettingDef(v) : v \in ReadonlyValues}

(***************************************************************************)
(* Results and exceptions.                                                 *)
(***************************************************************************)
NoResult == [kind |-> "none", type |-> "", msg |-> ""]
\* {"columns": ..., "rows": ...}
QueryResult == [kind |-> "value", type |-> "QueryResult", msg |-> ""]
\* {"error": str(err)}
ErrorDict(m) == [kind |-> "value", type |-> "ErrorDict", msg |-> m]
\* {"status": "error", "message": ...}
StatusError(m) == [kind |-> "value", type |-> "StatusError", msg |-> m]
Raised(t, m) == [kind |-> "exception", type |-> t, msg |-> m]
MSG_QUERY_FAILED == "Query execution failed"
MSG_TIMED_OUT == "Query timed out after 30 seconds"
MSG_UNEXPECTED == "Unexpected error during query execution"
MSG_QUERY_FAILED_DICT == "Query failed"
\* What clickhouse_connect.get_client raises when the server cannot be reached.
ConnectError == Raised("OperationalError", "connect")

NoFuture == [state |-> "NONE", result |-> NoResult]
\* read_only of a call whose job has not reached get_readonly_setting.
Unset == "unset"

VARIABLES
  server_readonly,  \* the server's entry client.server_settings.get("readonly")
  pc,               \* call -> "idle" | "waiting" | "done"
  query,            \* call -> the SQL text passed to run_select_query
  future,           \* call -> the Future that QUERY_EXECUTOR.submit returned
  phase,            \* call -> where execute_query is: "" | "querying" | "returned"
  read_only,        \* call -> what get_readonly_setting returned in execute_query
  executor_queue,   \* QUERY_EXECUTOR's work queue: calls, in submission order
  backend_log,      \* statements the backend received: [call, query, readonly]
  backend_error,    \* call -> the backend raised an error on the call's statement
  outcome,          \* call -> what run_select_query returned or raised
  waited,           \* call -> seconds the caller has spent in run_select_query
  n_tables,               \* database -> number of tables the backend holds in it
  table_pagination_cache, \* token -> the cursor state stored under it
  minted,                 \* number of tokens minted so far
  page_now,               \* wall clock of the pagination cache, in seconds
  last_call,              \* the latest list_tables call: arguments and answer
  walk,                   \* a round trip: the pages one caller has collected
  inflight,               \* caller -> its list_tables call in progress
  resumes,                \* token -> number of calls that resumed from it
  environ,                \* os.environ: tenant name -> the settings under its prefix
  CLICKHOUSE_SERVERS,     \* the names in os.environ["CLICKHOUSE_SERVERS"], in order
  MULTI_CONFIG_INSTANCE,  \* the singleton _MULTI_CONFIG_INSTANCE
  resolved,               \* the latest get_config(name) call: argument and outcome
  client_config,          \* what the latest get_client_config() returned
  chdb_running,           \* workers of QUERY_EXECUTOR busy with execute_chdb_query
  user_memory,            \* the backend's table user_memory: exists, and its rows
  saved,                  \* key -> values saved since the key's last successful delete
  last_memory,            \* the last memory call: operation, key, table before, result
  chdb_env,               \* CHDB_ENABLED and the module's _chdb_client
  chdb,                   \* chDB call -> its position, future, the engine's answer, outcome
  reachable,              \* server -> clickhouse_connect.get_client can connect to it
  health,                 \* the last response of the /health route
  connection,             \* caller -> its create_clickhouse_client() call
  shutdown,               \* QUERY_EXECUTOR.shutdown(wait=True): its state, the jobs it found
  listing                 \* the last list_tables(database, like, not_like) call

query_vars == <<server_readonly, pc, query, future, phase, read_only, executor_queue,
                backend_log, backend_error, outcome, waited>>
page_vars == <<n_tables, table_pagination_cache, minted, page_now, last_call, walk>>
race_vars == <<inflight, resumes>>
config_vars == <<environ, CLICKHOUSE_SERVERS, MULTI_CONFIG_INSTANCE, resolved,
                 client_config>>
memory_vars == <<user_memory, saved, last_memory>>
chdb_vars == <<chdb_env, chdb>>
health_vars == <<reachable, health>>
extra_vars == <<connection, shutdown, listing>>
aux_vars == <<memory_vars, chdb_vars, health_vars, extra_vars>>
vars == <<query_vars, page_vars, race_vars, config_vars, chdb_running, aux_vars>>
\* What the actions of one part of the program leave alone.
non_query_vars == <<page_vars, race_vars, config_vars, chdb_running, aux_vars>>
non_page_vars == <<query_vars, race_vars, config_vars, chdb_running, aux_vars>>
non_listing_vars == <<query_vars, config_vars, chdb_running, aux_vars>>
non_config_vars == <<query_vars, page_vars, race_vars, chdb_running, aux_vars>>
non_memory_vars == <<query_vars, page_vars, race_vars, config_vars, chdb_running, chdb_vars,
                     health_vars, extra_vars>>
non_chdb_vars == <<query_vars, page_vars, race_vars, config_vars, memory_vars, health_vars,
                   extra_vars>>
non_health_vars == <<query_vars, page_vars, race_vars, chdb_running, memory_vars, chdb_vars,
                     extra_vars>>
non_extra_vars == <<query_vars, page_vars, race_vars, config_vars, chdb_running, memory_vars,
                    chdb_vars, health_vars>>

(***************************************************************************)
(* get_readonly_setting(client).                                           *)
(***************************************************************************)
get_readonly_setting(setting) ==
  IF PyTruthy(setting)
    THEN IF PyEq(setting, PyStr("0"))
           THEN "1"
           ELSE setting.value
    ELSE "1"

(***************************************************************************)
(* The thread pool.                                                        *)
(***************************************************************************)
Running == {c \in Calls : future[c].state = "RUNNING"}
Done(c) == future[c].state \in {"FINISHED", "CANCELLED"}
\* Variant: the workers that run execute_chdb_query are not counted.
IdleWorker_per_engine == Cardinality(Running) < max_workers

\* QUERY_EXECUTOR has a worker free: it runs execute_query and execute_chdb_query.
IdleWorker == Cardinality(Running) + chdb_running < max_workers

QueryInit ==
  /\ server_readonly \in ServerReadonlySettings
  /\ pc = [c \in Calls |-> "idle"]
  /\ query = [c \in Calls |-> NoQuery]
  /\ future = [c \in Calls |-> NoFuture]
  /\ phase = [c \in Calls |-> ""]
  /\ read_only = [c \in Calls |-> Unset]
  /\ executor_queue = <<>>
  /\ backend_log = {}
  /\ backend_error = [c \in Calls |-> FALSE]
  /\ outcome = [c \in Calls |-> NoResult]
  /\ waited = [c \in Calls |-> 0]

(***************************************************************************)
(* The allow-list of spec section 4.4, which run_select_query does not     *)
(* have: a text is refused when it begins with a mutating keyword, or      *)
(* holds one as a token after an allow-listed verb.                        *)
(***************************************************************************)
MutatingKeywords ==
  {"INSERT", "UPDATE", "DELETE", "DROP", "CREATE", "ALTER", "TRUNCATE", "GRANT"}
AllowedVerbs == {"SELECT", "SHOW", "DESCRIBE", "DESC", "EXISTS", "EXPLAIN"}
BeginsMutating(q) == Len(q) > 0 /\ q[1] \in MutatingKeywords
HoldsMutatingAfterVerb(q) ==
  /\ Len(q) > 0
  /\ q[1] \in AllowedVerbs
  /\ \E i \in 2 .. Len(q) : q[i] \in MutatingKeywords
RejectedBySpec(q) == BeginsMutating(q) \/ HoldsMutatingAfterVerb(q)
MSG_REJECTED == "RejectedQuery"

\* Variant: run_select_query with the allow-list check before submit.
run_select_query_submit_checked(c, q) ==
  /\ pc[c] = "idle"
  /\ \A d \in Calls : d < c => pc[d] # "idle"
  /\ query' = [query EXCEPT ![c] = q]
  /\ IF RejectedBySpec(q)
       THEN /\ pc' = [pc EXCEPT ![c] = "done"]
            /\ outcome' = [outcome EXCEPT ![c] = StatusError(MSG_REJECTED)]
            /\ UNCHANGED <<future, executor_queue>>
       ELSE /\ pc' = [pc EXCEPT ![c] = "waiting"]
            /\ future' = [future EXCEPT ![c] = [state |-> "PENDING", result |-> NoResult]]
            /\ executor_queue' = Append(executor_queue, c)
            /\ UNCHANGED outcome
  /\ UNCHANGED <<non_query_vars, server_readonly, phase, read_only, backend_log, backend_error, waited>>

(***************************************************************************)
(* run_select_query(query), up to future.result(timeout=...): the job is   *)
(* submitted whatever the text is.                                         *)
(***************************************************************************)
run_select_query_submit(c, q) ==
  /\ pc[c] = "idle"
  /\ \A d \in Calls : d < c => pc[d] # "idle"
  /\ pc' = [pc EXCEPT ![c] = "waiting"]
  /\ query' = [query EXCEPT ![c] = q]
  /\ future' = [future EXCEPT ![c] = [state |-> "PENDING", result |-> NoResult]]
  /\ executor_queue' = Append(executor_queue, c)
  /\ UNCHANGED <<non_query_vars, server_readonly, phase, read_only, backend_log, backend_error,
                 outcome, waited>>

(***************************************************************************)
(* A worker thread takes the oldest work item.  A cancelled item is        *)
(* dropped.  Otherwise the future is RUNNING and execute_query(query) runs *)
(* to its backend call: create_clickhouse_client() outside the try (a      *)
(* failure leaves execute_query as it is), then get_readonly_setting and   *)
(* client.query(query, settings={"readonly": read_only}).                  *)
(***************************************************************************)
\* Variant: a worker takes the newest work item.
execute_query_start_newest(c, connected) ==
  /\ executor_queue # <<>>
  /\ c = executor_queue[Len(executor_queue)]
  /\ IdleWorker
  /\ executor_queue' = SubSeq(executor_queue, 1, Len(executor_queue) - 1)
  /\ IF future[c].state = "CANCELLED"
       THEN UNCHANGED <<future, phase, read_only, backend_log>>
       ELSE IF connected
         THEN LET ro == get_readonly_setting(server_readonly) IN
              /\ future' = [future EXCEPT ![c].state = "RUNNING"]
              /\ phase' = [phase EXCEPT ![c] = "querying"]
              /\ read_only' = [read_only EXCEPT ![c] = ro]
              /\ backend_log' = backend_log \cup
                                  {[call |-> c, query |-> query[c], readonly |-> ro]}
         ELSE /\ future' = [future EXCEPT ![c] =
                              [state |-> "FINISHED", result |-> ConnectError]]
              /\ phase' = [phase EXCEPT ![c] = "returned"]
              /\ UNCHANGED <<read_only, backend_log>>
  /\ UNCHANGED <<non_query_vars, server_readonly, pc, query, backend_error, outcome, waited>>

\* Variant: the worker runs whatever it takes from the queue, cancelled or not.
execute_query_start_runs_cancelled(c, connected) ==
  /\ executor_queue # <<>>
  /\ c = Head(executor_queue)
  /\ IdleWorker
  /\ executor_queue' = Tail(executor_queue)
  /\ IF connected
         THEN LET ro == get_readonly_setting(server_readonly) IN
              /\ future' = [future EXCEPT ![c].state = "RUNNING"]
              /\ phase' = [phase EXCEPT ![c] = "querying"]
              /\ read_only' = [read_only EXCEPT ![c] = ro]
              /\ backend_log' = backend_log \cup
                                  {[call |-> c, query |-> query[c], readonly |-> ro]}
         ELSE /\ future' = [future EXCEPT ![c] =
                              [state |-> "FINISHED", result |-> ConnectError]]
              /\ phase' = [phase EXCEPT ![c] = "returned"]
              /\ UNCHANGED <<read_only, backend_log>>
  /\ UNCHANGED <<non_query_vars, server_readonly, pc, query, backend_error, outcome, waited>>

\* Variant: the backend call carries settings={"readonly": "1"} whatever the
\* negotiator returned.
execute_query_start_hardcoded(c, connected) ==
  /\ executor_queue # <<>>
  /\ c = Head(executor_queue)
  /\ IdleWorker
  /\ executor_queue' = Tail(executor_queue)
  /\ IF future[c].state = "CANCELLED"
       THEN UNCHANGED <<future, phase, read_only, backend_log>>
       ELSE IF connected
         THEN LET ro == get_readonly_setting(server_readonly) IN
              /\ future' = [future EXCEPT ![c].state = "RUNNING"]
              /\ phase' = [phase EXCEPT ![c] = "querying"]
              /\ read_only' = [read_only EXCEPT ![c] = ro]
              /\ backend_log' = backend_log \cup
                                  {[call |-> c, query |-> query[c], readonly |-> "1"]}
         ELSE /\ future' = [future EXCEPT ![c] =
                              [state |-> "FINISHED", result |-> ConnectError]]
              /\ phase' = [phase EXCEPT ![c] = "returned"]
              /\ UNCHANGED <<read_only, backend_log>>
  /\ UNCHANGED <<non_query_vars, server_readonly, pc, query, backend_error, outcome, waited>>

execute_query_start(c, connected) ==
  /\ executor_queue # <<>>
  /\ c = Head(executor_queue)
  /\ IdleWorker
  /\ executor_queue' = Tail(executor_queue)
  /\ IF future[c].state = "CANCELLED"
       THEN UNCHANGED <<future, phase, read_only, backend_log>>
       ELSE IF connected
         THEN LET ro == get_readonly_setting(server_readonly) IN
              /\ future' = [future EXCEPT ![c].state = "RUNNING"]
              /\ phase' = [phase EXCEPT ![c] = "querying"]
              /\ read_only' = [read_only EXCEPT ![c] = ro]
              /\ backend_log' = backend_log \cup
                                  {[call |-> c, query |-> query[c], readonly |-> ro]}
         ELSE /\ future' = [future EXCEPT ![c] =
                              [state |-> "FINISHED", result |-> ConnectError]]
              /\ phase' = [phase EXCEPT ![c] = "returned"]
              /\ UNCHANGED <<read_only, backend_log>>
  /\ UNCHANGED <<non_query_vars, server_readonly, pc, query, backend_error, outcome, waited>>

(***************************************************************************)
(* The backend call of execute_query returns rows, or raises and the       *)
(* except clause raises ToolError("Query execution failed: ...").          *)
(***************************************************************************)
\* Variant: no try/except around the backend call.
execute_query_result_uncaught(ok) ==
  IF ok THEN QueryResult ELSE Raised("DatabaseError", "backend")

execute_query_result(ok) ==
  IF ok THEN QueryResult ELSE Raised("ToolError", MSG_QUERY_FAILED)

execute_query_return(c, ok) ==
  /\ future[c].state = "RUNNING"
  /\ phase[c] = "querying"
  /\ future' = [future EXCEPT ![c] =
                  [state |-> "FINISHED", result |-> execute_query_result(ok)]]
  /\ phase' = [phase EXCEPT ![c] = "returned"]
  /\ backend_error' = [backend_error EXCEPT ![c] = ~ok]
  /\ UNCHANGED <<non_query_vars, server_readonly, pc, query, read_only, executor_queue,
                 backend_log, outcome, waited>>

(***************************************************************************)
(* run_select_query after future.result(timeout=...) returned or raised    *)
(* what the job left in the future.                                        *)
(***************************************************************************)
\* Variant: no `except ToolError: raise` before `except Exception`.
run_select_query_outcome_wrapped(r) ==
  IF r.kind = "value"
    THEN IF r.type = "ErrorDict"
           THEN StatusError(MSG_QUERY_FAILED_DICT)
           ELSE r
    ELSE Raised("RuntimeError", MSG_UNEXPECTED)

run_select_query_outcome(r) ==
  IF r.kind = "value"
    THEN IF r.type = "ErrorDict"
           THEN StatusError(MSG_QUERY_FAILED_DICT)
           ELSE r
    ELSE IF r.type = "ToolError"
           THEN r
           ELSE Raised("RuntimeError", MSG_UNEXPECTED)

\* Variant: the result of a job is taken whenever it is there, also after the
\* caller had its timeout.
run_select_query_result_late(c) ==
  /\ pc[c] \in {"waiting", "done"}
  /\ future[c].state = "FINISHED"
  /\ outcome[c] # run_select_query_outcome(future[c].result)
  /\ pc' = [pc EXCEPT ![c] = "done"]
  /\ outcome' = [outcome EXCEPT ![c] = run_select_query_outcome(future[c].result)]
  /\ UNCHANGED <<non_query_vars, server_readonly, query, future, phase, read_only, executor_queue,
                 backend_log, backend_error, waited>>

run_select_query_result(c) ==
  /\ pc[c] = "waiting"
  /\ future[c].state = "FINISHED"
  /\ pc' = [pc EXCEPT ![c] = "done"]
  /\ outcome' = [outcome EXCEPT ![c] = run_select_query_outcome(future[c].result)]
  /\ UNCHANGED <<non_query_vars, server_readonly, query, future, phase, read_only, executor_queue,
                 backend_log, backend_error, waited>>

(***************************************************************************)
(* future.result(timeout=SELECT_QUERY_TIMEOUT_SECS) raises TimeoutError:   *)
(* future.cancel() (it cancels a PENDING future, leaves a RUNNING one      *)
(* alone, and returns at once either way), then ToolError.                 *)
(***************************************************************************)
\* Variant: the except branch joins the worker before it raises.
run_select_query_timeout_joined(c) ==
  /\ pc[c] = "waiting"
  /\ future[c].state = "FINISHED"
  /\ waited[c] >= SELECT_QUERY_TIMEOUT_SECS
  /\ pc' = [pc EXCEPT ![c] = "done"]
  /\ outcome' = [outcome EXCEPT ![c] = Raised("ToolError", MSG_TIMED_OUT)]
  /\ UNCHANGED <<non_query_vars, server_readonly, query, future, phase, read_only, executor_queue,
                 backend_log, backend_error, waited>>

\* Variant: no future.cancel() in the except branch.
run_select_query_timeout_no_cancel(c) ==
  /\ pc[c] = "waiting"
  /\ future[c].state \in {"PENDING", "RUNNING"}
  /\ waited[c] >= SELECT_QUERY_TIMEOUT_SECS
  /\ pc' = [pc EXCEPT ![c] = "done"]
  /\ outcome' = [outcome EXCEPT ![c] = Raised("ToolError", MSG_TIMED_OUT)]
  /\ UNCHANGED <<non_query_vars, server_readonly, query, future, phase, read_only, executor_queue,
                 backend_log, backend_error, waited>>

\* Variant: cancel() stops a running job and gives its worker back.
run_select_query_timeout_preemptive(c) ==
  /\ pc[c] = "waiting"
  /\ future[c].state \in {"PENDING", "RUNNING"}
  /\ waited[c] >= SELECT_QUERY_TIMEOUT_SECS
  /\ future' = [future EXCEPT ![c].state = "CANCELLED"]
  /\ pc' = [pc EXCEPT ![c] = "done"]
  /\ outcome' = [outcome EXCEPT ![c] = Raised("ToolError", MSG_TIMED_OUT)]
  /\ UNCHANGED <<non_query_vars, server_readonly, query, phase, read_only, executor_queue,
                 backend_log, backend_error, waited>>

run_select_query_timeout(c) ==
  /\ pc[c] = "waiting"
  /\ future[c].state \in {"PENDING", "RUNNING"}
  /\ waited[c] >= SELECT_QUERY_TIMEOUT_SECS
  /\ future' = [future EXCEPT ![c].state =
                  IF @ = "PENDING" THEN "CANCELLED" ELSE @]
  /\ pc' = [pc EXCEPT ![c] = "done"]
  /\ outcome' = [outcome EXCEPT ![c] = Raised("ToolError", MSG_TIMED_OUT)]
  /\ UNCHANGED <<non_query_vars, server_readonly, query, phase, read_only, executor_queue,
                 backend_log, backend_error, waited>>

(***************************************************************************)
(* run_chdb_select_query submits execute_chdb_query to the same            *)
(* QUERY_EXECUTOR.  A chDB job is followed from the moment a worker takes  *)
(* it, which is at once when a worker is free and nothing is queued, until *)
(* the chDB call returns, however long that takes.                         *)
(***************************************************************************)
execute_chdb_query_start ==
  /\ executor_queue = <<>>
  /\ IdleWorker
  /\ chdb_running' = chdb_running + 1
  /\ UNCHANGED <<query_vars, page_vars, race_vars, config_vars, aux_vars>>

execute_chdb_query_return ==
  /\ chdb_running > 0
  /\ chdb_running' = chdb_running - 1
  /\ UNCHANGED <<query_vars, page_vars, race_vars, config_vars, aux_vars>>

(***************************************************************************)
(* Time passes for every caller blocked in future.result(timeout=...), but *)
(* not past the end of a wait: future.result returns as soon as the future *)
(* is finished and raises TimeoutError at its deadline.                    *)
(***************************************************************************)
Min(S) == CHOOSE x \in S : \A y \in S : x <= y

Waiting == {c \in Calls : pc[c] = "waiting"}

Tick ==
  /\ Waiting # {}
  /\ \A c \in Calls : ~ENABLED run_select_query_timeout(c)
  /\ \A c \in Calls : ~ENABLED run_select_query_result(c)
  /\ LET left == {SELECT_QUERY_TIMEOUT_SECS - waited[c] : c \in Waiting}
         d == Min({t \in left \cup {TickStep} : t > 0})
     IN /\ \A c \in Waiting : waited[c] + d <= MaxWait
        /\ waited' = [c \in Calls |-> IF c \in Waiting THEN waited[c] + d ELSE waited[c]]
  /\ UNCHANGED <<non_query_vars, server_readonly, pc, query, future, phase, read_only, executor_queue,
                 backend_log, backend_error, outcome>>

(***************************************************************************)
(* The paginated listing: list_tables(database, like, page_token,          *)
(* page_size) over table_pagination_cache, after spec section 4.5 and the  *)
(* calls of tests/test_pagination.py.                                      *)
(***************************************************************************)
Databases == {"A", "B"}
\* like=None, and a LIKE pattern that the tables named a_... match
NoLike == "None"
LikeA == "a_%"
Likes == {NoLike, LikeA}
\* The i-th table of a database: odd ones are named a_<i>, even ones b_<i>.
TableName(db, i) == <<db, IF i % 2 = 1 THEN "a" ELSE "b", i>>
Matches(name, like) == like = NoLike \/ name[2] = "a"

NoToken == 0
\* A token no call ever minted.
InvalidToken == -1
PageSizes == 1 .. MaxPageSize

\* fetch_table_names(client, database, like): the full ordered key list.
fetch_table_names(db, like) ==
  LET all == [i \in 1 .. n_tables[db] |-> TableName(db, i)]
      keep(name) == Matches(name, like)
  IN SelectSeq(all, keep)

\* Variant: the slice starts one key early, at the last key of the page before.
get_paginated_tables_overlap(table_names, start_idx, page_size) ==
  LET end_idx == IF start_idx + page_size < Len(table_names)
                   THEN start_idx + page_size ELSE Len(table_names)
  IN [tables |-> SubSeq(table_names, IF start_idx = 0 THEN 1 ELSE start_idx, end_idx),
      end_idx |-> end_idx,
      has_more |-> end_idx < Len(table_names)]

\* Variant: has_more is true also when the page ends at the end of the list.
get_paginated_tables_off_by_one(table_names, start_idx, page_size) ==
  LET end_idx == IF start_idx + page_size < Len(table_names)
                   THEN start_idx + page_size ELSE Len(table_names)
  IN [tables |-> SubSeq(table_names, start_idx + 1, end_idx),
      end_idx |-> end_idx,
      has_more |-> end_idx <= Len(table_names) /\ start_idx < Len(table_names)]

\* get_paginated_tables(client, database, table_names, start_idx, page_size)
get_paginated_tables(table_names, start_idx, page_size) ==
  LET end_idx == IF start_idx + page_size < Len(table_names)
                   THEN start_idx + page_size ELSE Len(table_names)
  IN [tables |-> SubSeq(table_names, start_idx + 1, end_idx),
      end_idx |-> end_idx,
      has_more |-> end_idx < Len(table_names)]

\* An entry is reachable until it is deleted or older than the TTL.
Expired(tok) ==
  /\ tok \in DOMAIN table_pagination_cache
  /\ page_now - table_pagination_cache[tok].minted_at >= PAGINATION_TTL_SECS

\* Variant: a plain dictionary, whose entries never expire.
InCache_no_ttl(tok) == tok \in DOMAIN table_pagination_cache

\* page_token in table_pagination_cache
InCache(tok) == tok \in DOMAIN table_pagination_cache /\ ~Expired(tok)

\* Variant: a token found in the cache is resumed whatever scope it was minted for.
ScopeMatches_unchecked(tok, db, like) == TRUE

ScopeMatches(tok, db, like) ==
  /\ table_pagination_cache[tok].database = db
  /\ table_pagination_cache[tok].like = like

\* No token is refused: one that cannot be resumed gives a fresh listing.
TokenError(tok) == FALSE

\* What the cache held for the token when it was presented.
TokenState(tok) ==
  IF tok = NoToken THEN "none"
  ELSE IF tok = InvalidToken \/ tok > minted THEN "never_minted"
  ELSE IF tok \notin DOMAIN table_pagination_cache THEN "gone"
  ELSE IF Expired(tok) THEN "expired"
  ELSE "live"

\* create_page_token(database, like, table_names, start_idx): the entry stored.
create_page_token(db, like, table_names, start_idx) ==
  [database |-> db, like |-> like, table_names |-> table_names,
   start_idx |-> start_idx, minted_at |-> page_now]

NoCall ==
  [database |-> "", like |-> NoLike, page_token |-> NoToken, page_size |-> 0,
   token_state |-> "none", token_scope |-> <<>>, resumed |-> FALSE, start_idx |-> 0,
   total |-> 0, tables |-> <<>>, next_page_token |-> NoToken, error |-> FALSE]

\* Variant: the consumed token is left in the cache.
list_tables_keep_token(db, like, tok, page_size) ==
  LET resumed == tok # NoToken /\ InCache(tok) /\ ScopeMatches(tok, db, like)
      table_names == IF resumed THEN table_pagination_cache[tok].table_names
                     ELSE fetch_table_names(db, like)
      start_idx == IF resumed THEN table_pagination_cache[tok].start_idx ELSE 0
      page == get_paginated_tables(table_names, start_idx, page_size)
      new == minted + 1
      kept == DOMAIN table_pagination_cache
      cache == IF page.has_more
                 THEN [t \in kept \cup {new} |->
                         IF t = new
                           THEN create_page_token(db, like, table_names, page.end_idx)
                           ELSE table_pagination_cache[t]]
                 ELSE [t \in kept |-> table_pagination_cache[t]]
  IN IF TokenError(tok)
       THEN [cache |-> table_pagination_cache, minted |-> minted,
             answer |-> [NoCall EXCEPT !.database = db, !.like = like,
                           !.page_token = tok, !.page_size = page_size,
                           !.token_state = TokenState(tok), !.error = TRUE]]
       ELSE [cache |-> cache,
             minted |-> IF page.has_more THEN new ELSE minted,
             answer |->
               [database |-> db, like |-> like, page_token |-> tok,
                page_size |-> page_size, token_state |-> TokenState(tok),
                token_scope |-> IF tok \in DOMAIN table_pagination_cache
                                  THEN <<table_pagination_cache[tok].database,
                                         table_pagination_cache[tok].like>>
                                  ELSE <<>>,
                resumed |-> resumed, start_idx |-> start_idx,
                total |-> Len(table_names), tables |-> page.tables,
                next_page_token |-> IF page.has_more THEN new ELSE NoToken,
                error |-> FALSE]]

\* The answer of list_tables and the cache it leaves, as one record.
list_tables(db, like, tok, page_size) ==
  LET resumed == tok # NoToken /\ InCache(tok) /\ ScopeMatches(tok, db, like)
      table_names == IF resumed THEN table_pagination_cache[tok].table_names
                     ELSE fetch_table_names(db, like)
      start_idx == IF resumed THEN table_pagination_cache[tok].start_idx ELSE 0
      page == get_paginated_tables(table_names, start_idx, page_size)
      new == minted + 1
      kept == IF resumed THEN DOMAIN table_pagination_cache \ {tok}
              ELSE DOMAIN table_pagination_cache
      cache == IF page.has_more
                 THEN [t \in kept \cup {new} |->
                         IF t = new
                           THEN create_page_token(db, like, table_names, page.end_idx)
                           ELSE table_pagination_cache[t]]
                 ELSE [t \in kept |-> table_pagination_cache[t]]
  IN IF TokenError(tok)
       THEN [cache |-> table_pagination_cache, minted |-> minted,
             answer |-> [NoCall EXCEPT !.database = db, !.like = like,
                           !.page_token = tok, !.page_size = page_size,
                           !.token_state = TokenState(tok), !.error = TRUE]]
       ELSE [cache |-> cache,
             minted |-> IF page.has_more THEN new ELSE minted,
             answer |->
               [database |-> db, like |-> like, page_token |-> tok,
                page_size |-> page_size, token_state |-> TokenState(tok),
                token_scope |-> IF tok \in DOMAIN table_pagination_cache
                                  THEN <<table_pagination_cache[tok].database,
                                         table_pagination_cache[tok].like>>
                                  ELSE <<>>,
                resumed |-> resumed, start_idx |-> start_idx,
                total |-> Len(table_names), tables |-> page.tables,
                next_page_token |-> IF page.has_more THEN new ELSE NoToken,
                error |-> FALSE]]

NoWalk == [status |-> "idle", database |-> "", like |-> NoLike, page_size |-> 0,
           token |-> NoToken, pages |-> <<>>, tokens |-> <<>>]

\* B is a small database, as the second database of the tests: at most one table.
PageInit ==
  /\ n_tables \in {f \in [Databases -> 0 .. MaxTables] : f["B"] <= f["A"] /\ f["B"] <= 1}
  /\ table_pagination_cache = <<>>
  /\ minted = 0
  /\ page_now = 0
  /\ last_call = NoCall
  /\ walk = NoWalk

\* A run is followed until its round trip has ended.
WalkOpen == walk.status \in {"idle", "active"}

(***************************************************************************)
(* A caller starts a round trip: list_tables with no token.                *)
(***************************************************************************)
WalkStart(db, like, page_size) ==
  LET r == list_tables(db, like, NoToken, page_size) IN
  /\ last_call = NoCall
  /\ walk.status = "idle"
  /\ r.minted <= MaxTokens
  /\ table_pagination_cache' = r.cache
  /\ minted' = r.minted
  /\ last_call' = r.answer
  /\ walk' = [status |-> IF r.answer.next_page_token = NoToken THEN "finished" ELSE "active",
              database |-> db, like |-> like, page_size |-> page_size,
              token |-> r.answer.next_page_token,
              pages |-> <<r.answer.tables>>,
              tokens |-> <<r.answer.next_page_token>>]
  /\ UNCHANGED <<non_page_vars, n_tables, page_now>>

(***************************************************************************)
(* The caller of the round trip feeds the token of its previous call.  A   *)
(* token that is no longer in the cache ends the round trip: the answer is *)
(* a first page again.                                                     *)
(***************************************************************************)
WalkNext ==
  LET r == list_tables(walk.database, walk.like, walk.token, walk.page_size) IN
  /\ last_call = NoCall
  /\ walk.status = "active"
  /\ r.minted <= MaxTokens
  /\ table_pagination_cache' = r.cache
  /\ minted' = r.minted
  /\ last_call' = r.answer
  /\ walk' = IF ~InCache(walk.token)
               THEN [walk EXCEPT !.status = "broken"]
               ELSE [walk EXCEPT
                       !.status = IF r.answer.next_page_token = NoToken
                                    THEN "finished" ELSE "active",
                       !.token = r.answer.next_page_token,
                       !.pages = Append(@, r.answer.tables),
                       !.tokens = Append(@, r.answer.next_page_token)]
  /\ UNCHANGED <<non_page_vars, n_tables, page_now>>

(***************************************************************************)
(* Any other list_tables call, with any token: none, one never minted, or  *)
(* one minted earlier, for any scope.  When it consumes the token the      *)
(* round trip was about to present, the round trip is broken.              *)
(***************************************************************************)
ListTables(db, like, tok, page_size) ==
  LET r == list_tables(db, like, tok, page_size) IN
  /\ last_call = NoCall
  /\ WalkOpen
  /\ r.minted <= MaxTokens
  /\ table_pagination_cache' = r.cache
  /\ minted' = r.minted
  /\ last_call' = r.answer
  /\ walk' = IF walk.status = "active" /\ tok = walk.token /\ r.answer.resumed
               THEN [walk EXCEPT !.status = "broken"]
               ELSE walk
  /\ UNCHANGED <<non_page_vars, n_tables, page_now>>

(***************************************************************************)
(* del table_pagination_cache[page_token], as the expiry test does.        *)
(***************************************************************************)
DeleteToken(tok) ==
  /\ last_call = NoCall
  /\ WalkOpen
  /\ tok \in DOMAIN table_pagination_cache
  /\ table_pagination_cache' =
       [t \in DOMAIN table_pagination_cache \ {tok} |-> table_pagination_cache[t]]
  /\ UNCHANGED <<non_page_vars, n_tables, minted, page_now, last_call, walk>>

\* The caller has the answer of its call: the next call can start.
Return ==
  /\ last_call # NoCall
  /\ last_call' = NoCall
  /\ UNCHANGED <<non_page_vars, n_tables, table_pagination_cache, minted, page_now, walk>>

PageTick ==
  /\ last_call = NoCall
  /\ WalkOpen
  /\ page_now < MaxPageTime
  /\ page_now' = IF page_now + PageTickStep < MaxPageTime
                   THEN page_now + PageTickStep ELSE MaxPageTime
  /\ UNCHANGED <<non_page_vars, n_tables, table_pagination_cache, minted, last_call, walk>>

(***************************************************************************)
(* list_tables run by several callers at once.  The cache is a             *)
(* synchronized store (spec section 5): a call looks its token up and      *)
(* takes it out of the cache in one step of the store, then slices its     *)
(* page, mints the replacement token and returns, while other calls run.   *)
(***************************************************************************)
Callers == 1 .. MaxCallers
NoInflight ==
  [pc |-> "idle", database |-> "", like |-> NoLike, page_token |-> NoToken,
   page_size |-> 0, found |-> FALSE, resumed |-> FALSE, table_names |-> <<>>,
   start_idx |-> 0, tables |-> <<>>, next_page_token |-> NoToken]

RaceIdle ==
  /\ inflight = [k \in Callers |-> NoInflight]
  /\ resumes = [t \in 1 .. MaxCallers |-> 0]

\* Variant: the lookup leaves the entry in the cache.
list_tables_take_lookup_only(k, db, like, tok, page_size) ==
  LET resumed == tok # NoToken /\ InCache(tok) /\ ScopeMatches(tok, db, like) IN
  /\ inflight[k].pc = "idle"
  /\ \A j \in Callers : j < k => inflight[j].pc # "idle"
  /\ inflight' = [inflight EXCEPT ![k] =
       [NoInflight EXCEPT
          !.pc = "taken", !.database = db, !.like = like, !.page_token = tok,
          !.page_size = page_size,
          !.found = (tok # NoToken /\ InCache(tok)),
          !.resumed = resumed,
          !.table_names = IF resumed THEN table_pagination_cache[tok].table_names
                          ELSE fetch_table_names(db, like),
          !.start_idx = IF resumed THEN table_pagination_cache[tok].start_idx ELSE 0]]
  /\ resumes' = IF resumed THEN [resumes EXCEPT ![tok] = @ + 1] ELSE resumes
  /\ UNCHANGED <<non_listing_vars, page_vars>>

\* The token is looked up, validated and, on a match, deleted: one store step.
list_tables_take(k, db, like, tok, page_size) ==
  LET resumed == tok # NoToken /\ InCache(tok) /\ ScopeMatches(tok, db, like) IN
  /\ inflight[k].pc = "idle"
  /\ \A j \in Callers : j < k => inflight[j].pc # "idle"
  /\ inflight' = [inflight EXCEPT ![k] =
       [NoInflight EXCEPT
          !.pc = "taken", !.database = db, !.like = like, !.page_token = tok,
          !.page_size = page_size,
          !.found = (tok # NoToken /\ InCache(tok)),
          !.resumed = resumed,
          !.table_names = IF resumed THEN table_pagination_cache[tok].table_names
                          ELSE fetch_table_names(db, like),
          !.start_idx = IF resumed THEN table_pagination_cache[tok].start_idx ELSE 0]]
  /\ resumes' = IF resumed THEN [resumes EXCEPT ![tok] = @ + 1] ELSE resumes
  /\ table_pagination_cache' =
       IF resumed
         THEN [t \in DOMAIN table_pagination_cache \ {tok} |-> table_pagination_cache[t]]
         ELSE table_pagination_cache
  /\ UNCHANGED <<non_listing_vars, n_tables, minted, page_now, last_call, walk>>

\* The page is sliced and, if keys remain, a token is minted for the rest.
list_tables_finish(k) ==
  LET c == inflight[k]
      page == get_paginated_tables(c.table_names, c.start_idx, c.page_size)
      new == minted + 1
  IN /\ c.pc = "taken"
     /\ inflight' = [inflight EXCEPT ![k] =
          [c EXCEPT !.pc = "done", !.tables = page.tables,
                    !.next_page_token = IF page.has_more THEN new ELSE NoToken]]
     /\ IF page.has_more
          THEN /\ minted' = new
               /\ table_pagination_cache' =
                    [t \in DOMAIN table_pagination_cache \cup {new} |->
                       IF t = new
                         THEN create_page_token(c.database, c.like, c.table_names,
                                                page.end_idx)
                         ELSE table_pagination_cache[t]]
          ELSE UNCHANGED <<minted, table_pagination_cache>>
     /\ UNCHANGED <<non_listing_vars, n_tables, page_now, last_call, walk, resumes>>

\* Time passes between calls, in steps shorter than the TTL.
TtlTick ==
  /\ last_call = NoCall
  /\ page_now < MaxTtlTime
  /\ page_now' = IF page_now + TtlTickStep < MaxTtlTime
                   THEN page_now + TtlTickStep ELSE MaxTtlTime
  /\ UNCHANGED <<non_page_vars, n_tables, table_pagination_cache, minted, last_call, walk>>

\* The (database, like) pairs that calls name.
Scopes == {<<"A", NoLike>>, <<"A", LikeA>>, <<"B", NoLike>>}
PresentableTokens == {NoToken, InvalidToken} \cup (1 .. minted)

(***************************************************************************)
(* mcp_env.py: the configuration read from the environment.  environ maps  *)
(* a server name to the values of its settings, PyNone for an unset one:   *)
(* CLICKHOUSE_<KEY> for "default", CLICKHOUSE_<NAME>_<KEY> for the others. *)
(***************************************************************************)
ServerNames == {"default", "t1", "t2"}
\* A name that no server has.
UnknownName == "zz"
\* name=None
NoName == "None"
Lower(s) ==
  CASE s = "True" -> "true"
    [] s = "TRUE" -> "true"
    [] s = "False" -> "false"
    [] OTHER -> s
\* int(s), for the port numbers of the model
ParseInt(s) ==
  CASE s = "8123" -> 8123
    [] s = "8443" -> 8443
    [] s = "9000" -> 9000

\* _get_env(key, default): os.getenv(self._env_key(key), default)
get_env(name, key, default) ==
  IF environ[name][key] = PyNone THEN default ELSE environ[name][key]
\* _get_bool(key, default=True)
get_bool(name, key) == Lower(get_env(name, key, PyStr("True")).value) = "true"
enabled(name) == get_bool(name, "ENABLED")
secure(name) == get_bool(name, "SECURE")
port(name) ==
  IF get_env(name, "PORT", PyNone) # PyNone
    THEN ParseInt(get_env(name, "PORT", PyStr("8123")).value)
    ELSE IF secure(name) THEN 8443 ELSE 8123

NoException == [kind |-> "none", type |-> "", text |-> "", tenant |-> "", missing |-> <<>>]
MissingVars(name, missing) ==
  [kind |-> "exception", type |-> "ValueError",
   text |-> "Missing required ClickHouse env vars for", tenant |-> name,
   missing |-> missing]
NoValidConfig ==
  [kind |-> "exception", type |-> "ValueError",
   text |-> "No valid ClickHouse configuration found.", tenant |-> "", missing |-> <<>>]

\* _validate_required_vars: the required settings that are unset or empty
required == <<"HOST", "USER", "PASSWORD">>
missing_vars(name) ==
  LET lacks(k) == ~PyTruthy(get_env(name, k, PyNone))
  IN SelectSeq(required, lacks)

\* ClickHouseConfig(name=name): the exception its constructor raises, if any.
ClickHouseConfig(name) ==
  IF enabled(name) /\ missing_vars(name) # <<>>
    THEN MissingVars(name, missing_vars(name))
    ELSE NoException

\* validate(): bool(self.host and self.username and self.password)
validate(name) ==
  /\ PyTruthy(get_env(name, "HOST", PyNone))
  /\ PyTruthy(get_env(name, "USER", PyNone))
  /\ PyTruthy(get_env(name, "PASSWORD", PyNone))

\* A MultiClickHouseConfig under construction, and the exception that ended it.
EmptyMulti ==
  [loaded |-> TRUE, configs |-> {}, default_config_name |-> NoName, error |-> NoException]
\* _MULTI_CONFIG_INSTANCE = None
NoInstance ==
  [loaded |-> FALSE, configs |-> {}, default_config_name |-> NoName, error |-> NoException]

\* Variant: a "default" entry in CLICKHOUSE_SERVERS ends the loading with an error.
RECURSIVE load_named_reject_default(_, _, _)
load_named_reject_default(names, i, acc) ==
  IF i > Len(names) \/ acc.error # NoException THEN acc
  ELSE LET name == names[i] IN
    IF name = "default"
      THEN [acc EXCEPT !.error = [NoValidConfig EXCEPT !.tenant = "default"]]
    ELSE IF name # ""
      THEN IF ClickHouseConfig(name) # NoException
             THEN [acc EXCEPT !.error = ClickHouseConfig(name)]
             ELSE IF validate(name)
               THEN load_named_reject_default(names, i + 1,
                      [acc EXCEPT !.configs = @ \cup {name},
                                  !.default_config_name = IF @ = NoName THEN name ELSE @])
               ELSE load_named_reject_default(names, i + 1, acc)
      ELSE load_named_reject_default(names, i + 1, acc)

\* MultiClickHouseConfig.__init__, "Process named servers first": the loop from
\* the i-th name on.  An exception of ClickHouseConfig(name) ends the loop.
RECURSIVE load_named(_, _, _)
load_named(names, i, acc) ==
  IF i > Len(names) \/ acc.error # NoException THEN acc
  ELSE LET name == names[i] IN
    IF name # "" /\ name # "default"
      THEN IF ClickHouseConfig(name) # NoException
             THEN [acc EXCEPT !.error = ClickHouseConfig(name)]
             ELSE IF validate(name)
               THEN load_named(names, i + 1,
                      [acc EXCEPT !.configs = @ \cup {name},
                                  !.default_config_name = IF @ = NoName THEN name ELSE @])
               ELSE load_named(names, i + 1, acc)
      ELSE load_named(names, i + 1, acc)

\* Variant: the default configuration is loaded beside the named ones.
MultiClickHouseConfig_with_default(names, allow_empty) ==
  LET named == load_named(names, 1, EmptyMulti)
      all == IF named.error = NoException
               THEN IF ClickHouseConfig("default") # NoException
                      THEN [named EXCEPT !.error = ClickHouseConfig("default")]
                      ELSE IF validate("default")
                        THEN [named EXCEPT !.configs = @ \cup {"default"},
                                           !.default_config_name =
                                             IF @ = NoName THEN "default" ELSE @]
                        ELSE named
               ELSE named
  IN IF all.error = NoException /\ all.configs = {} /\ ~allow_empty
       THEN [all EXCEPT !.error = NoValidConfig]
       ELSE all

\* MultiClickHouseConfig(allow_empty): the instance, or the exception raised.
MultiClickHouseConfig(names, allow_empty) ==
  LET named == load_named(names, 1, EmptyMulti)
      all == IF named.error = NoException /\ named.default_config_name = NoName
               THEN IF ClickHouseConfig("default") # NoException
                      THEN [named EXCEPT !.error = ClickHouseConfig("default")]
                      ELSE IF validate("default")
                        THEN [named EXCEPT !.configs = @ \cup {"default"},
                                           !.default_config_name = "default"]
                        ELSE named
               ELSE named
  IN IF all.error = NoException /\ all.configs = {} /\ ~allow_empty
       THEN [all EXCEPT !.error = NoValidConfig]
       ELSE all

\* Variant: a name that is not registered is an error, not the default server.
multi_get_config_strict(multi, name) ==
  IF name # NoName /\ name \in multi.configs
    THEN [config |-> name, error |-> NoException]
  ELSE IF name = NoName /\ multi.default_config_name # NoName
            /\ multi.default_config_name \in multi.configs
    THEN [config |-> multi.default_config_name, error |-> NoException]
  ELSE [config |-> NoName, error |-> NoValidConfig]

\* MultiClickHouseConfig.get_config(name)
multi_get_config(multi, name) ==
  IF name # NoName /\ name \in multi.configs
    THEN [config |-> name, error |-> NoException]
  ELSE IF multi.default_config_name # NoName
            /\ multi.default_config_name \in multi.configs
    THEN [config |-> multi.default_config_name, error |-> NoException]
  ELSE [config |-> NoName, error |-> NoValidConfig]

\* No get_config call yet.
Unasked == "unasked"
NoResolved == [name |-> Unasked, config |-> NoName, error |-> NoException]
NoClientConfig == [client_name |-> ""]

(***************************************************************************)
(* get_config(name): the registry is loaded by the first call, and by      *)
(* every call until a load succeeds; then the name is resolved.            *)
(***************************************************************************)
\* Variant: the registry is built again by every call.
get_config_reloading(name) ==
  LET multi == MultiClickHouseConfig(CLICKHOUSE_SERVERS, FALSE)
  IN /\ IF multi.error # NoException
          THEN /\ resolved' = [name |-> name, config |-> NoName, error |-> multi.error]
               /\ UNCHANGED MULTI_CONFIG_INSTANCE
          ELSE /\ MULTI_CONFIG_INSTANCE' = multi
               /\ resolved' = [name |-> name,
                               config |-> multi_get_config(multi, name).config,
                               error |-> multi_get_config(multi, name).error]
     /\ client_config' = NoClientConfig
     /\ UNCHANGED <<non_config_vars, environ, CLICKHOUSE_SERVERS>>

get_config(name) ==
  LET multi == IF MULTI_CONFIG_INSTANCE = NoInstance
                 THEN MultiClickHouseConfig(CLICKHOUSE_SERVERS, FALSE)
                 ELSE MULTI_CONFIG_INSTANCE
  IN /\ IF multi.error # NoException
          THEN /\ resolved' = [name |-> name, config |-> NoName, error |-> multi.error]
               /\ UNCHANGED MULTI_CONFIG_INSTANCE
          ELSE /\ MULTI_CONFIG_INSTANCE' = multi
               /\ resolved' = [name |-> name,
                               config |-> multi_get_config(multi, name).config,
                               error |-> multi_get_config(multi, name).error]
     /\ client_config' = NoClientConfig
     /\ UNCHANGED <<non_config_vars, environ, CLICKHOUSE_SERVERS>>

\* get_all_configs(allow_empty): the registry is loaded if it is not yet; an
\* exception of the constructor leaves _MULTI_CONFIG_INSTANCE as it was.
get_all_configs(allow_empty) ==
  LET multi == MultiClickHouseConfig(CLICKHOUSE_SERVERS, allow_empty)
  IN /\ MULTI_CONFIG_INSTANCE' =
          IF MULTI_CONFIG_INSTANCE = NoInstance /\ multi.error = NoException
            THEN multi
            ELSE MULTI_CONFIG_INSTANCE
     /\ UNCHANGED <<non_config_vars, environ, CLICKHOUSE_SERVERS, resolved, client_config>>

(***************************************************************************)
(* get_client_config() of the configuration that get_config returned.      *)
(***************************************************************************)
get_client_config ==
  /\ resolved.config # NoName
  /\ client_config = NoClientConfig
  /\ client_config' =
       [host |-> get_env(resolved.config, "HOST", PyNone),
        port |-> port(resolved.config),
        username |-> get_env(resolved.config, "USER", PyNone),
        password |-> get_env(resolved.config, "PASSWORD", PyNone),
        secure |-> secure(resolved.config),
        verify |-> get_bool(resolved.config, "VERIFY"),
        connect_timeout |-> 30,
        send_receive_timeout |-> 300,
        client_name |-> resolved.config]
  /\ UNCHANGED <<non_config_vars, environ, CLICKHOUSE_SERVERS, MULTI_CONFIG_INSTANCE,
                 resolved>>

\* The settings of one server in the environment.
Env(is_enabled, host, user, password) ==
  [ENABLED |-> is_enabled, HOST |-> host, USER |-> user, PASSWORD |-> password,
   SECURE |-> PyNone, VERIFY |-> PyNone, PORT |-> PyNone]
EnvUnset == Env(PyNone, PyNone, PyNone, PyNone)
EnvComplete == Env(PyNone, PyStr("h"), PyStr("u"), PyStr("p"))
EnvProfiles ==
  {EnvUnset,
   EnvComplete,
   Env(PyStr("false"), PyStr("h"), PyStr("u"), PyStr("p")),
   Env(PyStr("false"), PyNone, PyNone, PyNone),
   Env(PyNone, PyStr("h"), PyStr("u"), PyNone),
   Env(PyStr("true"), PyStr(""), PyStr("u"), PyStr("p"))}
ListedNames == {"t1", "t2", "default", ""}
ServerLists == UNION {[1 .. n -> ListedNames] : n \in 0 .. MaxServers}
AskedNames == {NoName, "default", "t1", "t2", UnknownName}
SecureSettings == {PyNone, PyStr("true"), PyStr("false"), PyStr("TRUE"), PyStr("1")}
PortSettings == {PyNone, PyStr("8123"), PyStr("8443"), PyStr("9000")}

ConfigIdle ==
  /\ environ = [n \in ServerNames |-> EnvUnset]
  /\ CLICKHOUSE_SERVERS = <<>>
  /\ MULTI_CONFIG_INSTANCE = NoInstance
  /\ resolved = NoResolved
  /\ client_config = NoClientConfig

\* Any environment of the profiles, before the first get_config call.
ConfigInit ==
  /\ environ \in [ServerNames -> EnvProfiles]
  /\ CLICKHOUSE_SERVERS \in ServerLists
  /\ MULTI_CONFIG_INSTANCE = NoInstance
  /\ resolved = NoResolved
  /\ client_config = NoClientConfig

\* The environment of tests/test_config_interface.py: one complete server,
\* with any SECURE and PORT.
ClientInit ==
  /\ \E s \in SecureSettings, p \in PortSettings :
       environ = [n \in ServerNames |->
                    IF n = "default"
                      THEN [EnvComplete EXCEPT !.SECURE = s, !.PORT = p]
                      ELSE EnvUnset]
  /\ CLICKHOUSE_SERVERS = <<>>
  /\ MULTI_CONFIG_INSTANCE = NoInstance
  /\ resolved = NoResolved
  /\ client_config = NoClientConfig


(***************************************************************************)
(* The process environment changes after the registry was loaded, as       *)
(* os.environ allows at any time.  The properties of ClickHouseConfig call *)
(* os.getenv whenever they are read.                                       *)
(***************************************************************************)
PutenvNames == {"default", "t1"}
PutenvSettings ==
  {<<"HOST", PyStr("h2")>>, <<"HOST", PyNone>>, <<"HOST", PyStr("h")>>,
   <<"PORT", PyStr("9000")>>, <<"PORT", PyNone>>,
   <<"ENABLED", PyStr("false")>>, <<"ENABLED", PyNone>>}

putenv(n, key, value) ==
  /\ MULTI_CONFIG_INSTANCE.loaded
  /\ environ[n][key] # value
  /\ environ' = [environ EXCEPT ![n][key] = value]
  /\ UNCHANGED <<non_config_vars, CLICKHOUSE_SERVERS, MULTI_CONFIG_INSTANCE, resolved,
                 client_config>>

\* Complete settings for every server, and a list of named servers.
RegistryInit ==
  /\ environ = [n \in ServerNames |-> EnvComplete]
  /\ CLICKHOUSE_SERVERS \in {l \in ServerLists : \A i \in 1 .. Len(l) : l[i] \in {"t1", "t2"}}
  /\ MULTI_CONFIG_INSTANCE = NoInstance
  /\ resolved = NoResolved
  /\ client_config = NoClientConfig

\* The listing does not run in Spec, and the query engine not in PageSpec.
PageIdle ==
  /\ n_tables = [db \in Databases |-> 0]
  /\ table_pagination_cache = <<>>
  /\ minted = 0
  /\ page_now = 0
  /\ last_call = NoCall
  /\ walk = NoWalk

(***************************************************************************)
(* The memory tools.  They keep their entries in the backend table         *)
(* user_memory, which only save_memory creates.  A statement on a table    *)
(* that does not exist fails on the backend, and any statement can fail.   *)
(***************************************************************************)
MaxRows == 3
MemoryKeys == {"k1", "k2"}
MemoryValues == {"v1", "v2"}

NoTable == [exists |-> FALSE, rows |-> <<>>]
NoMemoryCall == [op |-> "", key |-> "", before |-> NoTable, status |-> "",
                 message |-> "", result_key |-> "", count |-> 0, memories |-> <<>>,
                 deleted_count |-> 0, statements |-> <<>>]

\* The dictionaries the tools return.
MemoryError(op, k, message) ==
  [NoMemoryCall EXCEPT !.op = op, !.key = k, !.before = user_memory,
                       !.status = "error", !.message = message]
MemoryNotFound(op, k) ==
  [NoMemoryCall EXCEPT !.op = op, !.key = k, !.before = user_memory,
                       !.status = "not_found", !.result_key = k]
\* The statements the call sent to the backend, in order.
Sending(call, statements) == [call EXCEPT !.statements = statements]

\* SELECT ... FROM user_memory WHERE key = k ORDER BY updated_at DESC.
WhereKey(rows, k) == SelectSeq(rows, LAMBDA r : r.key = k)
WhereNotKey(rows, k) == SelectSeq(rows, LAMBDA r : r.key # k)
NewestFirst(rows) == [i \in 1 .. Len(rows) |-> rows[Len(rows) + 1 - i]]

\* execute_query on user_memory raises ToolError when the backend fails.
SelectFails(ok) == ~ok \/ ~user_memory.exists

save_memory(k, v, create_ok, insert_ok) ==
  /\ Len(user_memory.rows) < MaxRows
  /\ IF ~create_ok
       THEN /\ last_memory' = Sending(MemoryError("save", k, "Failed to create user_memory table"),
                                      <<"CREATE">>)
            /\ UNCHANGED <<user_memory, saved>>
       ELSE IF ~insert_ok
         THEN /\ last_memory' = Sending(MemoryError("save", k, "Failed to save memory"),
                                        <<"CREATE", "INSERT">>)
              /\ user_memory' = [user_memory EXCEPT !.exists = TRUE]
              /\ UNCHANGED saved
         ELSE /\ user_memory' = [exists |-> TRUE,
                                 rows |-> Append(user_memory.rows, [key |-> k, value |-> v])]
              /\ saved' = [saved EXCEPT ![k] = Append(@, v)]
              /\ last_memory' = [NoMemoryCall EXCEPT !.op = "save", !.key = k,
                                                     !.before = user_memory,
                                                     !.status = "success", !.result_key = k,
                                                     !.statements = <<"CREATE", "INSERT">>]
  /\ UNCHANGED non_memory_vars

get_memory(k, ok) ==
  /\ last_memory' =
       IF SelectFails(ok) THEN Sending(MemoryError("get", k, "Unexpected error"), <<"SELECT">>)
       ELSE LET memories == NewestFirst(WhereKey(user_memory.rows, k)) IN
            IF memories = <<>> THEN Sending(MemoryNotFound("get", k), <<"SELECT">>)
            ELSE [NoMemoryCall EXCEPT !.op = "get", !.key = k, !.before = user_memory,
                                      !.status = "success", !.result_key = k,
                                      !.count = Len(memories), !.memories = memories,
                                      !.statements = <<"SELECT">>]
  /\ UNCHANGED <<non_memory_vars, user_memory, saved>>

\* Variant: the ALTER TABLE ... DELETE is sent without the count() check.
delete_memory_unchecked(k, check_ok, delete_ok) ==
  LET memories_count == Len(WhereKey(user_memory.rows, k)) IN
  /\ IF ~delete_ok \/ ~user_memory.exists
       THEN /\ last_memory' = Sending(MemoryError("delete", k, "Failed to delete memories"),
                                      <<"DELETE">>)
            /\ UNCHANGED <<user_memory, saved>>
       ELSE /\ user_memory' = [user_memory EXCEPT !.rows = WhereNotKey(@, k)]
            /\ saved' = [saved EXCEPT ![k] = <<>>]
            /\ last_memory' = [NoMemoryCall EXCEPT !.op = "delete", !.key = k,
                                                   !.before = user_memory,
                                                   !.status = "success",
                                                   !.result_key = k,
                                                   !.deleted_count = memories_count,
                                                   !.statements = <<"DELETE">>]
  /\ UNCHANGED non_memory_vars

delete_memory(k, check_ok, delete_ok) ==
  LET memories_count == Len(WhereKey(user_memory.rows, k)) IN
  /\ IF SelectFails(check_ok)
       THEN /\ last_memory' = Sending(MemoryError("delete", k, "Unexpected error"),
                                      <<"SELECT">>)
            /\ UNCHANGED <<user_memory, saved>>
       ELSE IF memories_count = 0
         THEN /\ last_memory' = Sending(MemoryNotFound("delete", k), <<"SELECT">>)
              /\ UNCHANGED <<user_memory, saved>>
         ELSE IF ~delete_ok
           THEN /\ last_memory' = Sending(MemoryError("delete", k, "Failed to delete memories"),
                                          <<"SELECT", "DELETE">>)
                /\ UNCHANGED <<user_memory, saved>>
           ELSE /\ user_memory' = [user_memory EXCEPT !.rows = WhereNotKey(@, k)]
                /\ saved' = [saved EXCEPT ![k] = <<>>]
                /\ last_memory' = [NoMemoryCall EXCEPT !.op = "delete", !.key = k,
                                                       !.before = user_memory,
                                                       !.status = "success",
                                                       !.result_key = k,
                                                       !.deleted_count = memories_count,
                                                       !.statements = <<"SELECT", "DELETE">>]
  /\ UNCHANGED non_memory_vars

\* A backend on which user_memory was never created.
MemoryIdle ==
  /\ user_memory = NoTable
  /\ saved = [k \in MemoryKeys |-> <<>>]
  /\ last_memory = NoMemoryCall

(***************************************************************************)
(* run_chdb_select_query, call by call.  Every call submits                *)
(* execute_chdb_query to QUERY_EXECUTOR and waits up to                    *)
(* SELECT_QUERY_TIMEOUT_SECS for it.  The job uses the one session         *)
(* _chdb_client that _init_chdb_client made at import, which is None when  *)
(* the session could not be created.                                       *)
(***************************************************************************)
MaxChdbCalls == 2
ChdbCalls == 1 .. MaxChdbCalls

\* What chDB answers to client.query(query, "JSON").
ChdbResponses == {"rows", "no_rows", "no_data", "has_error", "raises", "bad_json"}
NoResponse == ""

\* A list of rows, and the empty list.
RowList == [kind |-> "value", type |-> "list", msg |-> "rows"]
EmptyList == [kind |-> "value", type |-> "list", msg |-> ""]
MSG_CHDB_FAILED == "chDB query failed"
MSG_CHDB_TIMED_OUT == "chDB query timed out after 30 seconds"
MSG_CHDB_UNEXPECTED == "Unexpected error"

NoChdbCall == [pc |-> "idle", future |-> NoFuture, response |-> NoResponse,
               outcome |-> NoResult]

create_chdb_client(env) ==
  IF ~env.enabled THEN Raised("ValueError", "chDB is not enabled") ELSE NoResult

\* execute_chdb_query from client.query on: what it returns.
execute_chdb_query(env, response) ==
  IF env.client = "None" THEN ErrorDict("AttributeError")
  ELSE CASE response = "raises" -> ErrorDict("raised")
         [] response = "has_error" -> ErrorDict("error_message")
         [] response = "no_data" -> EmptyList
         [] response = "bad_json" -> ErrorDict("JSONDecodeError")
         [] response = "no_rows" -> EmptyList
         [] OTHER -> RowList

\* Variant: a failed query is raised as ToolError, as run_select_query does.
run_chdb_select_query_outcome_raising(r) ==
  IF r.kind = "value"
    THEN IF r.type = "ErrorDict" THEN Raised("ToolError", MSG_CHDB_FAILED) ELSE r
    ELSE StatusError(MSG_CHDB_UNEXPECTED)

\* run_chdb_select_query after future.result returned or raised.
run_chdb_select_query_outcome(r) ==
  IF r.kind = "value"
    THEN IF r.type = "ErrorDict" THEN StatusError(MSG_CHDB_FAILED) ELSE r
    ELSE StatusError(MSG_CHDB_UNEXPECTED)

run_chdb_select_query_submit(d) ==
  /\ chdb[d].pc = "idle"
  /\ \A e \in ChdbCalls : e < d => chdb[e].pc # "idle"
  /\ chdb' = [chdb EXCEPT ![d].pc = "waiting", ![d].future.state = "PENDING"]
  /\ UNCHANGED <<non_chdb_vars, chdb_running, chdb_env>>

\* A worker takes the job: create_chdb_client(), then client.query.
execute_chdb_query_enter(d) ==
  /\ chdb[d].future.state = "PENDING"
  /\ executor_queue = <<>>
  /\ IdleWorker
  /\ IF create_chdb_client(chdb_env).kind = "exception"
       THEN /\ chdb' = [chdb EXCEPT ![d].future =
                          [state |-> "FINISHED", result |-> create_chdb_client(chdb_env)]]
            /\ UNCHANGED chdb_running
       ELSE /\ chdb' = [chdb EXCEPT ![d].future.state = "RUNNING"]
            /\ chdb_running' = chdb_running + 1
  /\ UNCHANGED <<non_chdb_vars, chdb_env>>

\* client.query comes back and execute_chdb_query returns.
execute_chdb_query_leave(d, response) ==
  /\ chdb[d].future.state = "RUNNING"
  /\ chdb' = [chdb EXCEPT ![d].future =
                [state |-> "FINISHED", result |-> execute_chdb_query(chdb_env, response)],
              ![d].response = response]
  /\ chdb_running' = chdb_running - 1
  /\ UNCHANGED <<non_chdb_vars, chdb_env>>

run_chdb_select_query_result(d) ==
  /\ chdb[d].pc = "waiting"
  /\ chdb[d].future.state = "FINISHED"
  /\ chdb' = [chdb EXCEPT ![d].pc = "done",
                          ![d].outcome = run_chdb_select_query_outcome(chdb[d].future.result)]
  /\ UNCHANGED <<non_chdb_vars, chdb_running, chdb_env>>

\* The wait ends first: future.cancel() stops a job no worker has taken.
run_chdb_select_query_timeout(d) ==
  /\ chdb[d].pc = "waiting"
  /\ chdb[d].future.state \in {"PENDING", "RUNNING"}
  /\ chdb' = [chdb EXCEPT ![d].pc = "done",
                          ![d].outcome = StatusError(MSG_CHDB_TIMED_OUT),
                          ![d].future.state =
                            IF @ = "PENDING" THEN "CANCELLED" ELSE @]
  /\ UNCHANGED <<non_chdb_vars, chdb_running, chdb_env>>

ChdbEnvs == [enabled : BOOLEAN, client : {"Session", "None"}]

ChdbIdle ==
  /\ chdb_env = [enabled |-> TRUE, client |-> "Session"]
  /\ chdb = [d \in ChdbCalls |-> NoChdbCall]

ChdbInit ==
  /\ chdb_env \in ChdbEnvs
  /\ chdb = [d \in ChdbCalls |-> NoChdbCall]

(***************************************************************************)
(* The /health route.  With CLICKHOUSE_ENABLED off it answers from the     *)
(* chDB setting alone.  Otherwise it calls create_clickhouse_client(),     *)
(* which connects to the configuration that get_config() resolves with no  *)
(* name, and answers 200 when that worked and 503 on any exception.        *)
(***************************************************************************)
NoHealth == [called |-> FALSE, status_code |-> 0, text |-> "", probed |-> {},
             raised |-> FALSE]
Response(code, text, probed) ==
  [called |-> TRUE, status_code |-> code, text |-> text, probed |-> probed,
   raised |-> FALSE]

clickhouse_enabled == Lower(get_env("default", "ENABLED", PyStr("true")).value) = "true"

\* Variant: every registered server is probed and all must answer.
health_check_every_server ==
  LET multi == IF MULTI_CONFIG_INSTANCE = NoInstance
                 THEN MultiClickHouseConfig(CLICKHOUSE_SERVERS, FALSE)
                 ELSE MULTI_CONFIG_INSTANCE
  IN /\ IF ~clickhouse_enabled
          THEN /\ health' = IF chdb_env.enabled
                              THEN Response(200, "OK - MCP server running with chDB enabled", {})
                              ELSE Response(503, "ERROR - Both ClickHouse and chDB are disabled", {})
               /\ UNCHANGED MULTI_CONFIG_INSTANCE
          ELSE IF multi.error # NoException
            THEN /\ health' = Response(503, "ERROR - Cannot connect to ClickHouse", {})
                 /\ UNCHANGED MULTI_CONFIG_INSTANCE
            ELSE /\ MULTI_CONFIG_INSTANCE' = multi
                 /\ health' = IF \A t \in multi.configs : reachable[t]
                                THEN Response(200, "OK - Connected to ClickHouse", multi.configs)
                                ELSE Response(503, "ERROR - Cannot connect to ClickHouse",
                                              multi.configs)
     /\ UNCHANGED <<non_health_vars, environ, CLICKHOUSE_SERVERS, resolved, client_config,
                    reachable>>

health_check ==
  LET multi == IF MULTI_CONFIG_INSTANCE = NoInstance
                 THEN MultiClickHouseConfig(CLICKHOUSE_SERVERS, FALSE)
                 ELSE MULTI_CONFIG_INSTANCE
      target == multi_get_config(multi, NoName)
  IN /\ IF ~clickhouse_enabled
          THEN /\ health' = IF chdb_env.enabled
                              THEN Response(200, "OK - MCP server running with chDB enabled", {})
                              ELSE Response(503, "ERROR - Both ClickHouse and chDB are disabled", {})
               /\ UNCHANGED MULTI_CONFIG_INSTANCE
          ELSE IF multi.error # NoException
            THEN /\ health' = Response(503, "ERROR - Cannot connect to ClickHouse", {})
                 /\ UNCHANGED MULTI_CONFIG_INSTANCE
            ELSE /\ MULTI_CONFIG_INSTANCE' = multi
                 /\ health' = IF target.error # NoException
                                THEN Response(503, "ERROR - Cannot connect to ClickHouse", {})
                              ELSE IF reachable[target.config]
                                THEN Response(200, "OK - Connected to ClickHouse",
                                              {target.config})
                                ELSE Response(503, "ERROR - Cannot connect to ClickHouse",
                                              {target.config})
     /\ UNCHANGED <<non_health_vars, environ, CLICKHOUSE_SERVERS, resolved, client_config,
                    reachable>>

\* Backends come and go.
backend_change(n) ==
  /\ reachable' = [reachable EXCEPT ![n] = ~@]
  /\ health' = NoHealth
  /\ UNCHANGED <<non_health_vars, config_vars>>

HealthIdle ==
  /\ reachable = [n \in ServerNames |-> TRUE]
  /\ health = NoHealth

\* Named servers with complete settings; the un-prefixed settings complete,
\* switched off, or missing; any of the backends down.
HealthInit ==
  /\ \E d \in {EnvComplete, EnvUnset, Env(PyStr("false"), PyStr("h"), PyStr("u"), PyStr("p"))} :
       environ = [n \in ServerNames |-> IF n = "default" THEN d ELSE EnvComplete]
  /\ CLICKHOUSE_SERVERS \in {l \in ServerLists : \A i \in 1 .. Len(l) : l[i] \in {"t1", "t2"}}
  /\ MULTI_CONFIG_INSTANCE = NoInstance
  /\ resolved = NoResolved
  /\ client_config = NoClientConfig
  /\ reachable \in [ServerNames -> BOOLEAN]
  /\ health = NoHealth
  /\ chdb_env \in ChdbEnvs
  /\ chdb = [d \in ChdbCalls |-> NoChdbCall]

(***************************************************************************)
(* create_clickhouse_client(), step by step: clickhouse_connect.get_client *)
(* opens the connection, client.server_version tests it, and the client is *)
(* returned; an exception of either call is logged and raised again.       *)
(***************************************************************************)
MaxConnections == 3
Connections == 1 .. MaxConnections
NoClient == "None"
NoConnection == [pc |-> "idle", attempts |-> 0, probes |-> 0, opened |-> FALSE,
                 probed |-> FALSE, client |-> NoClient, raised |-> NoResult]

\* Variant: a failed get_client is tried once more before giving up.
create_clickhouse_client_open_retry(k, handshake_ok) ==
  /\ connection[k].pc \in {"idle", "retry"}
  /\ connection' =
       [connection EXCEPT ![k] =
          IF handshake_ok
            THEN [@ EXCEPT !.pc = "opened", !.attempts = @ + 1, !.opened = TRUE]
            ELSE IF @.attempts = 0
              THEN [@ EXCEPT !.pc = "retry", !.attempts = @ + 1]
              ELSE [@ EXCEPT !.pc = "raised", !.attempts = @ + 1,
                             !.raised = Raised("OperationalError", "handshake")]]
  /\ UNCHANGED <<non_extra_vars, shutdown, listing>>

\* client = clickhouse_connect.get_client(**client_config)
create_clickhouse_client_open(k, handshake_ok) ==
  /\ connection[k].pc = "idle"
  /\ connection' =
       [connection EXCEPT ![k] =
          IF handshake_ok
            THEN [@ EXCEPT !.pc = "opened", !.attempts = @ + 1, !.opened = TRUE]
            ELSE [@ EXCEPT !.pc = "raised", !.attempts = @ + 1,
                           !.raised = Raised("OperationalError", "handshake")]]
  /\ UNCHANGED <<non_extra_vars, shutdown, listing>>

\* version = client.server_version; return client
create_clickhouse_client_probe(k, probe_ok) ==
  /\ connection[k].pc = "opened"
  /\ connection' =
       [connection EXCEPT ![k] =
          IF probe_ok
            THEN [@ EXCEPT !.pc = "returned", !.probes = @ + 1, !.probed = TRUE,
                           !.client = "Client"]
            ELSE [@ EXCEPT !.pc = "raised", !.probes = @ + 1,
                           !.raised = Raised("OperationalError", "probe")]]
  /\ UNCHANGED <<non_extra_vars, shutdown, listing>>

ConnectIdle == connection = [k \in Connections |-> NoConnection]

(***************************************************************************)
(* At interpreter exit the atexit hook calls                               *)
(* QUERY_EXECUTOR.shutdown(wait=True): from then on submit raises          *)
(* RuntimeError, the workers go on with the running and the queued work    *)
(* items, and shutdown returns when the workers are done.                  *)
(***************************************************************************)
NotShutdown == [state |-> "no", found |-> {}]
InFlight == {c \in Calls : future[c].state \in {"PENDING", "RUNNING"}}

shutdown_begin ==
  /\ shutdown.state = "no"
  /\ shutdown' = [state |-> "draining", found |-> InFlight]
  /\ UNCHANGED <<non_extra_vars, connection, listing>>

\* Variant: shutdown(wait=False) returns at once.
shutdown_return_no_wait ==
  /\ shutdown.state = "draining"
  /\ shutdown' = [shutdown EXCEPT !.state = "complete"]
  /\ UNCHANGED <<non_extra_vars, connection, listing>>

shutdown_return ==
  /\ shutdown.state = "draining"
  /\ InFlight = {}
  /\ \A d \in ChdbCalls : chdb[d].future.state \notin {"PENDING", "RUNNING"}
  /\ shutdown' = [shutdown EXCEPT !.state = "complete"]
  /\ UNCHANGED <<non_extra_vars, connection, listing>>

\* run_select_query before the hook has run.
run_select_query_submit_accepted(c, q) ==
  /\ shutdown.state = "no"
  /\ run_select_query_submit(c, q)

\* run_select_query afterwards: submit raises, `except Exception` wraps it.
run_select_query_submit_refused(c, q) ==
  /\ shutdown.state # "no"
  /\ pc[c] = "idle"
  /\ \A d \in Calls : d < c => pc[d] # "idle"
  /\ pc' = [pc EXCEPT ![c] = "done"]
  /\ query' = [query EXCEPT ![c] = q]
  /\ outcome' = [outcome EXCEPT ![c] = Raised("RuntimeError", MSG_UNEXPECTED)]
  /\ UNCHANGED <<non_query_vars, server_readonly, future, phase, read_only, executor_queue,
                 backend_log, backend_error, waited>>

\* run_chdb_select_query before the hook has run.
run_chdb_select_query_submit_accepted(d) ==
  /\ shutdown.state = "no"
  /\ run_chdb_select_query_submit(d)

\* Variant: QUERY_EXECUTOR.submit outside the try of run_chdb_select_query.
run_chdb_select_query_submit_uncaught(d) ==
  /\ shutdown.state # "no"
  /\ chdb[d].pc = "idle"
  /\ \A e \in ChdbCalls : e < d => chdb[e].pc # "idle"
  /\ chdb' = [chdb EXCEPT ![d].pc = "done",
                          ![d].outcome = Raised("RuntimeError", "cannot schedule new futures")]
  /\ UNCHANGED <<non_chdb_vars, chdb_running, chdb_env>>

\* run_chdb_select_query afterwards: submit raises, `except Exception` turns it
\* into the status-error dictionary.
run_chdb_select_query_submit_refused(d) ==
  /\ shutdown.state # "no"
  /\ chdb[d].pc = "idle"
  /\ \A e \in ChdbCalls : e < d => chdb[e].pc # "idle"
  /\ chdb' = [chdb EXCEPT ![d].pc = "done",
                          ![d].outcome = StatusError(MSG_CHDB_UNEXPECTED)]
  /\ UNCHANGED <<non_chdb_vars, chdb_running, chdb_env>>

ShutdownIdle == shutdown = NotShutdown

(***************************************************************************)
(* list_tables(database, like, not_like) of mcp_server.py: one query on    *)
(* system.tables, then for every table of the result one query on          *)
(* system.columns.                                                         *)
(***************************************************************************)
NoListing == [called |-> FALSE, database |-> "", like |-> NoLike, not_like |-> NoLike,
              tables |-> <<>>, queries |-> <<>>]

\* WHERE database = ... AND name LIKE ... AND name NOT LIKE ...
system_tables(db, like, not_like) ==
  LET keep(name) == not_like = NoLike \/ ~Matches(name, not_like)
  IN SelectSeq(fetch_table_names(db, like), keep)

TablesQuery(db) == [table |-> "system.tables", database |-> db, name |-> <<>>]
ColumnsQuery(db, name) == [table |-> "system.columns", database |-> db, name |-> name]

list_tables_unpaged(db, like, not_like) ==
  LET tables == system_tables(db, like, not_like) IN
  /\ listing' = [called |-> TRUE, database |-> db, like |-> like, not_like |-> not_like,
                 tables |-> tables,
                 queries |-> <<TablesQuery(db)>>
                               \o [i \in 1 .. Len(tables) |-> ColumnsQuery(db, tables[i])]]
  /\ UNCHANGED <<non_extra_vars, connection, shutdown>>

\* The backend gets one more table.
create_table(db) ==
  /\ n_tables[db] < MaxTables
  /\ n_tables' = [n_tables EXCEPT ![db] = @ + 1]
  /\ UNCHANGED <<non_page_vars, table_pagination_cache, minted, page_now, last_call, walk>>

ListingIdle == listing = NoListing

ExtraIdle == ConnectIdle /\ ShutdownIdle /\ ListingIdle

AuxIdle == MemoryIdle /\ ChdbIdle /\ HealthIdle /\ ExtraIdle

QueryIdle == QueryInit /\ server_readonly = PyNone /\ chdb_running = 0

Init == QueryInit /\ chdb_running = 0 /\ PageIdle /\ RaceIdle /\ ConfigIdle /\ AuxIdle

Next ==
  \/ \E c \in Calls, q \in Queries : run_select_query_submit(c, q)
  \/ \E c \in Calls, connected \in BOOLEAN : execute_query_start(c, connected)
  \/ \E c \in Calls, ok \in BOOLEAN : execute_query_return(c, ok)
  \/ \E c \in Calls : run_select_query_result(c)
  \/ \E c \in Calls : run_select_query_timeout(c)
  \/ Tick

Spec == Init /\ [][Next]_vars

PageSpecInit == PageInit /\ QueryIdle /\ RaceIdle /\ ConfigIdle /\ AuxIdle

PageNext ==
  \/ \E page_size \in PageSizes : WalkStart("A", NoLike, page_size)
  \/ WalkNext
  \/ \E scope \in Scopes, tok \in PresentableTokens, page_size \in PageSizes :
       ListTables(scope[1], scope[2], tok, page_size)
  \/ \E tok \in 1 .. MaxTokens : DeleteToken(tok)
  \/ Return
  \/ PageTick

PageSpec == PageSpecInit /\ [][PageNext]_vars

\* Concurrent list_tables calls over one cache.
RaceScopes == {<<"A", NoLike>>, <<"A", LikeA>>}

RaceInit ==
  /\ n_tables \in {f \in [Databases -> 0 .. MaxTables] : f["B"] = 0}
  /\ table_pagination_cache = <<>>
  /\ minted = 0
  /\ page_now = 0
  /\ last_call = NoCall
  /\ walk = NoWalk

RaceNext ==
  \/ \E k \in Callers, scope \in RaceScopes, tok \in 0 .. minted, page_size \in PageSizes :
       list_tables_take(k, scope[1], scope[2], tok, page_size)
  \/ \E k \in Callers : list_tables_finish(k)

\* Calls on one listing while its tokens age.
TtlNext ==
  \/ \E tok \in PresentableTokens, page_size \in PageSizes :
       ListTables("A", NoLike, tok, page_size)
  \/ Return
  \/ TtlTick

RaceSpecInit == RaceInit /\ QueryIdle /\ RaceIdle /\ ConfigIdle /\ AuxIdle

TtlSpec == RaceSpecInit /\ [][TtlNext]_vars

RaceSpec == RaceSpecInit /\ [][RaceNext]_vars

\* run_select_query calls that find every worker of QUERY_EXECUTOR busy with
\* a chDB query; as many of these end as there are calls to take their place.
execute_chdb_query_return_some ==
  /\ chdb_running > max_workers - MaxCalls
  /\ execute_chdb_query_return

SaturatedInit ==
  /\ QueryInit
  /\ server_readonly = PyNone
  /\ chdb_running = max_workers
  /\ PageIdle /\ RaceIdle /\ ConfigIdle /\ AuxIdle

SaturatedNext ==
  \/ \E c \in Calls, q \in Queries : run_select_query_submit(c, q)
  \/ \E c \in Calls, connected \in BOOLEAN : execute_query_start(c, connected)
  \/ \E c \in Calls, ok \in BOOLEAN : execute_query_return(c, ok)
  \/ \E c \in Calls : run_select_query_result(c)
  \/ \E c \in Calls : run_select_query_timeout(c)
  \/ Tick
  \/ execute_chdb_query_return_some

SaturatedSpec == SaturatedInit /\ [][SaturatedNext]_vars

\* ClickHouse and chDB queries on the one pool; no caller waits long enough
\* for its timeout.
PoolNext ==
  \/ \E c \in Calls, q \in Queries : run_select_query_submit(c, q)
  \/ \E c \in Calls, connected \in BOOLEAN : execute_query_start(c, connected)
  \/ \E c \in Calls, ok \in BOOLEAN : execute_query_return(c, ok)
  \/ \E c \in Calls : run_select_query_result(c)
  \/ execute_chdb_query_start
  \/ execute_chdb_query_return

PoolSpec == Init /\ [][PoolNext]_vars

\* The registry: get_config calls in any environment.
ConfigNext == \E name \in AskedNames : get_config(name)

ConfigSpecInit == ConfigInit /\ QueryIdle /\ PageIdle /\ RaceIdle /\ AuxIdle

ConfigSpec == ConfigSpecInit /\ [][ConfigNext]_vars

\* One server's client configuration.
ClientNext ==
  \/ \E name \in AskedNames : get_config(name)
  \/ get_client_config

ClientSpecInit == ClientInit /\ QueryIdle /\ PageIdle /\ RaceIdle /\ AuxIdle

ClientSpec == ClientSpecInit /\ [][ClientNext]_vars

\* The memory tools, called one after the other.
MemoryNext ==
  \/ \E k \in MemoryKeys, v \in MemoryValues, create_ok, insert_ok \in BOOLEAN :
       save_memory(k, v, create_ok, insert_ok)
  \/ \E k \in MemoryKeys, ok \in BOOLEAN : get_memory(k, ok)
  \/ \E k \in MemoryKeys, check_ok, delete_ok \in BOOLEAN :
       delete_memory(k, check_ok, delete_ok)

MemorySpecInit ==
  MemoryIdle /\ QueryIdle /\ PageIdle /\ RaceIdle /\ ConfigIdle /\ ChdbIdle /\ HealthIdle
    /\ ExtraIdle

MemorySpec == MemorySpecInit /\ [][MemoryNext]_vars

\* The registry while the environment changes under it.
RegistryNext ==
  \/ \E name \in AskedNames : get_config(name)
  \/ get_client_config
  \/ \E n \in PutenvNames, kv \in PutenvSettings : putenv(n, kv[1], kv[2])

RegistrySpecInit == RegistryInit /\ QueryIdle /\ PageIdle /\ RaceIdle /\ AuxIdle

RegistrySpec == RegistrySpecInit /\ [][RegistryNext]_vars

\* run_chdb_select_query calls, with or without a chDB session.
ChdbNext ==
  \/ \E d \in ChdbCalls : run_chdb_select_query_submit_accepted(d)
  \/ \E d \in ChdbCalls : run_chdb_select_query_submit_refused(d)
  \/ shutdown_begin
  \/ shutdown_return
  \/ \E d \in ChdbCalls : execute_chdb_query_enter(d)
  \/ \E d \in ChdbCalls, response \in ChdbResponses : execute_chdb_query_leave(d, response)
  \/ \E d \in ChdbCalls : run_chdb_select_query_result(d)
  \/ \E d \in ChdbCalls : run_chdb_select_query_timeout(d)

ChdbSpecInit ==
  ChdbInit /\ QueryIdle /\ PageIdle /\ RaceIdle /\ ConfigIdle /\ MemoryIdle /\ HealthIdle
    /\ ExtraIdle

\* The /health route, asked again and again while backends come and go.
HealthNext ==
  \/ health_check
  \/ \E n \in ServerNames : backend_change(n)

HealthSpecInit == HealthInit /\ QueryIdle /\ PageIdle /\ RaceIdle /\ MemoryIdle /\ ExtraIdle

HealthSpec == HealthSpecInit /\ [][HealthNext]_vars

ChdbSpec == ChdbSpecInit /\ [][ChdbNext]_vars

\* create_clickhouse_client calls, each on a backend that answers or not.
ConnectNext ==
  \/ \E k \in Connections, handshake_ok \in BOOLEAN : create_clickhouse_client_open(k, handshake_ok)
  \/ \E k \in Connections, probe_ok \in BOOLEAN : create_clickhouse_client_probe(k, probe_ok)

ConnectSpecInit ==
  ConnectIdle /\ QueryIdle /\ PageIdle /\ RaceIdle /\ ConfigIdle /\ MemoryIdle /\ ChdbIdle
    /\ HealthIdle /\ ShutdownIdle /\ ListingIdle

ConnectSpec == ConnectSpecInit /\ [][ConnectNext]_vars

\* The query engine around the exit of the process.
ShutdownNext ==
  \/ \E c \in Calls, q \in Queries : run_select_query_submit_accepted(c, q)
  \/ \E c \in Calls, q \in Queries : run_select_query_submit_refused(c, q)
  \/ \E c \in Calls, connected \in BOOLEAN : execute_query_start(c, connected)
  \/ \E c \in Calls, ok \in BOOLEAN : execute_query_return(c, ok)
  \/ \E c \in Calls : run_select_query_result(c)
  \/ shutdown_begin
  \/ shutdown_return

ShutdownSpec == Init /\ [][ShutdownNext]_vars

\* A registered ClickHouse tool runs: create_clickhouse_client() asks get_config()
\* for the default server's configuration.
create_clickhouse_client_get_config ==
  /\ clickhouse_enabled
  /\ get_config(NoName)

\* The ClickHouse tools in any environment of the profiles.
TenantNext ==
  \/ create_clickhouse_client_get_config
  \/ get_client_config

TenantSpecInit == ConfigInit /\ QueryIdle /\ PageIdle /\ RaceIdle /\ AuxIdle

TenantSpec == TenantSpecInit /\ [][TenantNext]_vars

\* The registry loaded by get_all_configs or by get_config, whichever is first.
LoadNext ==
  \/ \E allow_empty \in BOOLEAN : get_all_configs(allow_empty)
  \/ \E name \in AskedNames : get_config(name)

LoadSpecInit == ConfigInit /\ QueryIdle /\ PageIdle /\ RaceIdle /\ AuxIdle

LoadSpec == LoadSpecInit /\ [][LoadNext]_vars

\* list_tables on a backend that grows.
ListingNext ==
  \/ \E db \in Databases, like \in Likes, not_like \in Likes : list_tables_unpaged(db, like, not_like)
  \/ \E db \in Databases : create_table(db)

ListingSpec == Init /\ [][ListingNext]_vars

TypeOK ==
  /\ server_readonly \in ServerReadonlySettings
  /\ \A c \in Calls : waited[c] \in 0 .. MaxWait
  /\ \A c \in Calls : pc[c] \in {"idle", "waiting", "done"}

TimedOut(c) == outcome[c] = Raised("ToolError", MSG_TIMED_OUT)
Sent(c) == {s \in backend_log : s.call = c}

(***************************************************************************)
(* C1: the negotiator maps server value "0" to "1", "2" to "2" and an      *)
(* absent value to "1", for every connection.  Stated over every           *)
(* execution of execute_query that reached get_readonly_setting.           *)
(***************************************************************************)
C1_NegotiatorMapping ==
  \A c \in Calls :
    read_only[c] # Unset =>
      /\ (server_readonly = SettingDef("0") => read_only[c] = "1")
      /\ (server_readonly = SettingDef("2") => read_only[c] = "2")
      /\ (server_readonly = PyNone => read_only[c] = "1")

(***************************************************************************)
(* C2: every statement sent to the backend carries a restrictive readonly  *)
(* setting: never "0" and never no readonly setting at all.                *)
(***************************************************************************)
C2_NeverUnrestricted ==
  \A s \in backend_log : s.readonly \in {"1", "2"}

(***************************************************************************)
(* C3, as claimed: a text that begins with a mutating keyword, or holds    *)
(* one after an allow-listed verb, is answered RejectedQuery before the    *)
(* job is submitted, and the backend is never invoked for the call.        *)
(***************************************************************************)
C3_RejectedBeforeSubmit ==
  \A c \in Calls :
    RejectedBySpec(query[c]) =>
      /\ future[c].state = "NONE"
      /\ Sent(c) = {}
      /\ (pc[c] = "done" => outcome[c].msg = MSG_REJECTED)

(***************************************************************************)
(* C3, amended: run_select_query does not read the text.  Every call's job *)
(* is submitted to the pool whatever the text holds, no call is answered   *)
(* RejectedQuery, and once a worker has opened a connection for the job    *)
(* the backend has received the text unchanged, with the readonly value    *)
(* the negotiator chose.                                                   *)
(***************************************************************************)
C3_SubmittedUnread ==
  \A c \in Calls :
    /\ (pc[c] # "idle" => future[c].state # "NONE")
    /\ outcome[c].msg # MSG_REJECTED
    /\ (phase[c] = "querying" =>
          Sent(c) = {[call |-> c, query |-> query[c],
                      readonly |-> get_readonly_setting(server_readonly)]})

C3_Witness ==
  /\ \E c \in Calls : BeginsMutating(query[c]) /\ Sent(c) # {}
  /\ \E c \in Calls : HoldsMutatingAfterVerb(query[c]) /\ Sent(c) # {}

(***************************************************************************)
(* C4: a caller whose job has not finished when the timeout elapses gets   *)
(* the timeout outcome at the deadline: it has then waited exactly         *)
(* SELECT_QUERY_TIMEOUT_SECS, and no caller is kept waiting longer,        *)
(* whether or not the backend call ever returns.                           *)
(***************************************************************************)
C4_TimeoutAtDeadline ==
  \A c \in Calls :
    /\ (pc[c] = "waiting" => waited[c] <= SELECT_QUERY_TIMEOUT_SECS)
    /\ (TimedOut(c) => waited[c] = SELECT_QUERY_TIMEOUT_SECS)

\* A caller has its timeout while its backend call is still running.
C4_Witness ==
  \E c \in Calls :
    TimedOut(c) /\ future[c].state = "RUNNING" /\ phase[c] = "querying"

(***************************************************************************)
(* C5, as claimed: a backend error is returned to the caller as a          *)
(* structured Failed(message) result, never raised.                        *)
(***************************************************************************)
C5_ErrorReturned ==
  \A c \in Calls :
    (backend_error[c] /\ pc[c] = "done" /\ ~TimedOut(c)) =>
      outcome[c].kind = "value" /\ outcome[c].type = "StatusError"

(***************************************************************************)
(* C5, amended: every backend error is caught inside execute_query and     *)
(* leaves it as ToolError("Query execution failed: ..."); the caller of    *)
(* run_select_query gets it raised as a ToolError, never as another        *)
(* exception type and never as a returned value.                           *)
(***************************************************************************)
C5_ErrorRaisedAsToolError ==
  \A c \in Calls :
    backend_error[c] =>
      /\ future[c].result = Raised("ToolError", MSG_QUERY_FAILED)
      /\ (pc[c] = "done" =>
            outcome[c].kind = "exception" /\ outcome[c].type = "ToolError")

C5_Witness ==
  \E c \in Calls :
    /\ backend_error[c]
    /\ pc[c] = "done"
    /\ outcome[c] = future[c].result
    /\ outcome[c].type = "ToolError"

(***************************************************************************)
(* C6: when the backend rejects the query of a call that is still waiting  *)
(* for it, run_select_query raises ToolError with "Query execution         *)
(* failed" in its message and returns no result dictionary.                *)
(***************************************************************************)
C6_RejectedRaisesToolError ==
  \A c \in Calls :
    (backend_error[c] /\ pc[c] = "done" /\ ~TimedOut(c)) =>
      /\ outcome[c] = Raised("ToolError", MSG_QUERY_FAILED)
      /\ outcome[c].kind # "value"

\* The test's case: a SELECT the backend rejects.
C6_Witness ==
  \E c \in Calls :
    /\ query[c] = Q_SELECT
    /\ backend_error[c]
    /\ outcome[c] = Raised("ToolError", MSG_QUERY_FAILED)
    /\ waited[c] < SELECT_QUERY_TIMEOUT_SECS

(***************************************************************************)
(* The pagination claims are stated over the answer of the latest          *)
(* list_tables call and over the pages a round trip has collected.         *)
(***************************************************************************)
Ceil(n, d) == (n + d - 1) \div d
Items(page) == {page[i] : i \in 1 .. Len(page)}
\* What a call with no token returns: the first page_size tables of the scope.
FirstPage(db, like, page_size) ==
  LET names == fetch_table_names(db, like)
  IN SubSeq(names, 1, IF page_size < Len(names) THEN page_size ELSE Len(names))
MoreThanOnePage(db, like, page_size) == Len(fetch_table_names(db, like)) > page_size
\* The answer's token is new: the latest minted, stored for the call's own scope.
NewlyMinted(tok, db, like, start_idx) ==
  /\ tok = minted
  /\ tok # last_call.page_token
  /\ tok \in DOMAIN table_pagination_cache
  /\ table_pagination_cache[tok].database = db
  /\ table_pagination_cache[tok].like = like
  /\ table_pagination_cache[tok].start_idx = start_idx
\* The answer is the one a call with no token gets.
FreshAnswer ==
  /\ ~last_call.error
  /\ last_call.tables =
       FirstPage(last_call.database, last_call.like, last_call.page_size)
  /\ IF MoreThanOnePage(last_call.database, last_call.like, last_call.page_size)
       THEN NewlyMinted(last_call.next_page_token, last_call.database,
                        last_call.like, last_call.page_size)
       ELSE last_call.next_page_token = NoToken

C12_Consumed ==
  LET tok == last_call'.page_token
      old == table_pagination_cache[tok]
      next == last_call'.next_page_token
  IN (/\ last_call = NoCall /\ last_call' # NoCall
      /\ tok # NoToken /\ InCache(tok)
      /\ ScopeMatches(tok, last_call'.database, last_call'.like)) =>
       /\ tok \notin DOMAIN table_pagination_cache'
       /\ IF old.start_idx + last_call'.page_size < Len(old.table_names)
            THEN /\ next # NoToken
                 /\ next # tok
                 /\ next \notin DOMAIN table_pagination_cache
                 /\ next \in DOMAIN table_pagination_cache'
                 /\ table_pagination_cache'[next].table_names = old.table_names
                 /\ table_pagination_cache'[next].start_idx =
                      old.start_idx + last_call'.page_size
                 /\ table_pagination_cache'[next].database = old.database
                 /\ table_pagination_cache'[next].like = old.like
            ELSE /\ next = NoToken
                 /\ DOMAIN table_pagination_cache' = DOMAIN table_pagination_cache \ {tok}

C12_NeverModifiedInPlace ==
  \A t \in DOMAIN table_pagination_cache \cap DOMAIN table_pagination_cache' :
    table_pagination_cache'[t] = table_pagination_cache[t]

OlderThanTTL(tok) ==
  /\ tok \in DOMAIN table_pagination_cache
  /\ page_now - table_pagination_cache[tok].minted_at > PAGINATION_TTL_SECS

C13_NotResolved ==
  (/\ last_call = NoCall /\ last_call' # NoCall
   /\ OlderThanTTL(last_call'.page_token)) =>
    /\ ~last_call'.resumed
    /\ last_call'.start_idx = 0
    /\ last_call'.tables =
         FirstPage(last_call'.database, last_call'.like, last_call'.page_size)
    /\ last_call'.next_page_token # last_call'.page_token
    /\ ~last_call'.error

C13_Permanent ==
  \A tok \in DOMAIN table_pagination_cache :
    OlderThanTTL(tok) => (tok \notin DOMAIN table_pagination_cache' \/ OlderThanTTL(tok)')

Declared ==
  {CLICKHOUSE_SERVERS[i] : i \in 1 .. Len(CLICKHOUSE_SERVERS)} \ {"", "default"}
Complete(t) == missing_vars(t) = <<>>
Asked == resolved.name # Unasked

(***************************************************************************)
(* C14: resolving an enabled tenant whose HOST, USER and PASSWORD are all  *)
(* set and non-empty returns a configuration with non-empty host, username *)
(* and password; when an enabled tenant lacks one of the three, loading    *)
(* fails with an error that names that tenant.                             *)
(***************************************************************************)
C14_CompleteResolvesIncompleteFails ==
  Asked =>
    \A t \in Declared :
      enabled(t) =>
        /\ (Complete(t) /\ resolved.name = t) =>
             /\ resolved.error = NoException
             /\ resolved.config # NoName
             /\ validate(resolved.config)
        /\ ~Complete(t) =>
             /\ ~MULTI_CONFIG_INSTANCE.loaded
             /\ resolved.error.kind = "exception"
             /\ resolved.error.tenant = t

(***************************************************************************)
(* C15: when an enabled tenant lacks a required setting, loading still     *)
(* succeeds and registers every other tenant whose settings are complete.  *)
(***************************************************************************)
C15_OtherTenantsStillRegistered ==
  (Asked /\ \E t \in Declared : enabled(t) /\ ~Complete(t)) =>
    \A u \in Declared :
      (enabled(u) /\ Complete(u)) =>
        MULTI_CONFIG_INSTANCE.loaded /\ u \in MULTI_CONFIG_INSTANCE.configs

(***************************************************************************)
(* C16: resolving a name that is not in the registry returns no            *)
(* configuration, of no tenant, and signals an error that names it.        *)
(***************************************************************************)
C16_UnknownTenantNotResolved ==
  (/\ MULTI_CONFIG_INSTANCE.loaded
   /\ resolved.name \notin {Unasked, NoName}
   /\ resolved.name \notin MULTI_CONFIG_INSTANCE.configs) =>
    /\ resolved.config = NoName
    /\ resolved.error.kind = "exception"
    /\ resolved.error.tenant = resolved.name

(***************************************************************************)
(* C17, as claimed: when CLICKHOUSE_SERVERS lists the name "default",      *)
(* loading fails.                                                          *)
(***************************************************************************)
DefaultListed ==
  \E i \in 1 .. Len(CLICKHOUSE_SERVERS) : CLICKHOUSE_SERVERS[i] = "default"

C17_DefaultRejected ==
  (Asked /\ DefaultListed) =>
    ~MULTI_CONFIG_INSTANCE.loaded /\ resolved.error.kind = "exception"

(***************************************************************************)
(* C17, amended: a "default" entry in CLICKHOUSE_SERVERS is skipped.       *)
(* Loading ends as it does for the list without that entry, with the same  *)
(* registry or the same error, and "default" is registered only from the   *)
(* unprefixed settings, when no named server was registered.               *)
(***************************************************************************)
C17_DefaultEntrySkipped ==
  (Asked /\ DefaultListed) =>
    LET IsNamed(n) == n # "default"
        expected == MultiClickHouseConfig(SelectSeq(CLICKHOUSE_SERVERS, IsNamed), FALSE)
    IN /\ expected.error = NoException => MULTI_CONFIG_INSTANCE = expected
       /\ expected.error # NoException =>
            ~MULTI_CONFIG_INSTANCE.loaded /\ resolved.error = expected.error
       /\ "default" \in MULTI_CONFIG_INSTANCE.configs =>
            MULTI_CONFIG_INSTANCE.configs = {"default"}

\* The list names "default" and a server, and loading registered the server.
C17_Witness ==
  /\ Asked /\ DefaultListed
  /\ MULTI_CONFIG_INSTANCE.loaded
  /\ MULTI_CONFIG_INSTANCE.configs # {}
  /\ "default" \notin MULTI_CONFIG_INSTANCE.configs
  /\ resolved.error = NoException

(***************************************************************************)
(* C18: get_client_config returns secure = true unless SECURE is set to a  *)
(* value other than "true" (in any case of letters), port = the PORT that  *)
(* is set and else 8443 if secure, 8123 if not, and interface = "https" if *)
(* secure, "http" if not.                                                  *)
(***************************************************************************)
C18_SecurePortInterface ==
  client_config # NoClientConfig =>
    LET s == environ[resolved.config].SECURE
        p == environ[resolved.config].PORT
        sec == s = PyNone \/ Lower(s.value) = "true"
    IN /\ client_config.secure = sec
       /\ client_config.port =
            (IF p # PyNone THEN ParseInt(p.value) ELSE IF sec THEN 8443 ELSE 8123)
       /\ "interface" \in DOMAIN client_config
       /\ client_config.interface = (IF sec THEN "https" ELSE "http")

(***************************************************************************)
(* C19, as claimed: the ClickHouse queries have a pool of their own, so    *)
(* the oldest queued job starts whenever fewer than max_workers ClickHouse *)
(* jobs are running, also while chDB jobs keep workers busy.               *)
(***************************************************************************)
HeadWaits(c) ==
  /\ executor_queue # <<>>
  /\ c = Head(executor_queue)
  /\ future[c].state = "PENDING"

C19_OwnPoolNeverStarved ==
  \A c \in Calls :
    (HeadWaits(c) /\ Cardinality(Running) < max_workers) =>
      ENABLED execute_query_start(c, TRUE)

(***************************************************************************)
(* C19, amended: ClickHouse and chDB queries share the one pool of         *)
(* max_workers workers.  The oldest queued job starts whenever fewer than  *)
(* max_workers jobs of both kinds together are running, and it cannot      *)
(* start while max_workers jobs are running, whichever kind they are.      *)
(***************************************************************************)
C19_OnePoolForAll ==
  /\ Cardinality(Running) + chdb_running <= max_workers
  /\ \A c \in Calls :
       HeadWaits(c) =>
         (ENABLED execute_query_start(c, TRUE)
            <=> Cardinality(Running) + chdb_running < max_workers)

\* A ClickHouse job waits in the queue while chDB jobs hold every worker.
C19_Witness ==
  /\ chdb_running = max_workers
  /\ Running = {}
  /\ \E c \in Calls : HeadWaits(c)

(***************************************************************************)
(* C20: once a caller has had its timeout, its outcome stays the timeout   *)
(* whatever its job does later; and the outcome of any call is set only    *)
(* from that call's own future, or by that call's own timeout.             *)
(***************************************************************************)
C20_Delivered ==
  \A c \in Calls :
    /\ TimedOut(c) => outcome'[c] = outcome[c]
    /\ outcome'[c] # outcome[c] =>
         /\ pc[c] = "waiting"
         /\ \/ outcome'[c] = Raised("ToolError", MSG_TIMED_OUT)
            \/ /\ future[c].state = "FINISHED"
               /\ outcome'[c] = run_select_query_outcome(future[c].result)

\* C20: no step delivers the late result of a timed-out job to any caller.
C20_NoLateResult ==
  [][C20_Delivered]_vars

\* A job finished with rows after its caller had the timeout.
C20_Witness ==
  \E c \in Calls :
    /\ TimedOut(c)
    /\ future[c].state = "FINISHED"
    /\ future[c].result = QueryResult
    /\ pc[c] = "done"

\* The values of a list of rows, counted.
ValueCount(rows, v) == Len(SelectSeq(rows, LAMBDA r : r.value = v))
SavedCount(k, v) == Len(SelectSeq(saved[k], LAMBDA x : x = v))

(***************************************************************************)
(* C21: a get_memory(k) that the backend answered returns "success" with   *)
(* count the number of values saved under k since k's last successful      *)
(* delete and with exactly those values, and "not_found" with key k when   *)
(* that number is zero.                                                    *)
(***************************************************************************)
C21_GetReturnsSavedValues ==
  (last_memory.op = "get"
     /\ (last_memory.message = "Unexpected error" => ~last_memory.before.exists)) =>
    LET k == last_memory.key IN
    IF saved[k] = <<>>
      THEN last_memory.status = "not_found" /\ last_memory.result_key = k
      ELSE /\ last_memory.status = "success"
           /\ last_memory.count = Len(saved[k])
           /\ Len(last_memory.memories) = Len(saved[k])
           /\ \A v \in MemoryValues :
                ValueCount(last_memory.memories, v) = SavedCount(k, v)

\* The same for every get_memory on a backend that holds the table.
C21_GetOnExistingTable ==
  (last_memory.op = "get" /\ last_memory.before.exists
     /\ last_memory.message # "Unexpected error") =>
    LET k == last_memory.key IN
    IF saved[k] = <<>>
      THEN last_memory.status = "not_found" /\ last_memory.result_key = k
      ELSE /\ last_memory.status = "success"
           /\ last_memory.count = Len(saved[k])
           /\ \A v \in MemoryValues :
                ValueCount(last_memory.memories, v) = SavedCount(k, v)

(***************************************************************************)
(* C22: a delete_memory(k) that the backend answered returns "success"     *)
(* with deleted_count = n on a key with n >= 1 entries, leaves no entry    *)
(* under k and every other key's entries as they were, and returns         *)
(* "not_found" with key k on a key with no entries.                        *)
(***************************************************************************)
C22_DeleteRemovesOnlyKey ==
  LET k == last_memory.key
      n == Len(WhereKey(last_memory.before.rows, k)) IN
  (last_memory.op = "delete"
     /\ last_memory.message \notin {"Failed to delete memories"}
     /\ (last_memory.message = "Unexpected error" => ~last_memory.before.exists)) =>
    IF n >= 1
      THEN /\ last_memory.status = "success"
           /\ last_memory.deleted_count = n
           /\ WhereKey(user_memory.rows, k) = <<>>
           /\ WhereNotKey(user_memory.rows, k) = WhereNotKey(last_memory.before.rows, k)
      ELSE last_memory.status = "not_found" /\ last_memory.result_key = k

\* The same for every delete_memory on a backend that holds the table.
C22_DeleteOnExistingTable ==
  LET k == last_memory.key
      n == Len(WhereKey(last_memory.before.rows, k)) IN
  (last_memory.op = "delete" /\ last_memory.before.exists
     /\ last_memory.message = "") =>
    IF n >= 1
      THEN /\ last_memory.status = "success"
           /\ last_memory.deleted_count = n
           /\ WhereKey(user_memory.rows, k) = <<>>
           /\ WhereNotKey(user_memory.rows, k) = WhereNotKey(last_memory.before.rows, k)
      ELSE last_memory.status = "not_found" /\ last_memory.result_key = k

\* The call got the answer of a chDB session that was there.
Answered(d) ==
  /\ chdb[d].pc = "done"
  /\ chdb_env.enabled /\ chdb_env.client = "Session"
  /\ chdb[d].outcome # StatusError(MSG_CHDB_TIMED_OUT)

InSession == {d \in ChdbCalls : chdb[d].future.state = "RUNNING"}

(***************************************************************************)
(* C24: no handle is used by two executions at once.  execute_query makes  *)
(* a client of its own for every execution, so the claim is decided by the *)
(* chDB session: at most one worker is inside a call on it in any state.   *)
(***************************************************************************)
C24_SessionSerialized ==
  /\ Cardinality(InSession) <= 1
  /\ chdb_running <= 1

\* What a registered server's configuration answers when it is read.
SettingsOf(n) ==
  [host |-> get_env(n, "HOST", PyNone),
   port |-> port(n),
   username |-> get_env(n, "USER", PyNone),
   password |-> get_env(n, "PASSWORD", PyNone),
   enabled |-> enabled(n)]

RegistryKept ==
  MULTI_CONFIG_INSTANCE.loaded => MULTI_CONFIG_INSTANCE' = MULTI_CONFIG_INSTANCE

SettingsKept ==
  MULTI_CONFIG_INSTANCE.loaded =>
    \A n \in MULTI_CONFIG_INSTANCE.configs : SettingsOf(n)' = SettingsOf(n)

(***************************************************************************)
(* C25, as claimed: once the registry is loaded no step changes its        *)
(* entries, and every registered server resolves to the same host, port,   *)
(* credentials and enabled flag whatever happens to the environment.       *)
(***************************************************************************)
C25_RegistryImmutable ==
  [][RegistryKept /\ SettingsKept]_vars

SettingsReadLive ==
  (client_config' # client_config /\ client_config' # NoClientConfig) =>
    /\ client_config'.host = SettingsOf(resolved.config)'.host
    /\ client_config'.port = SettingsOf(resolved.config)'.port
    /\ client_config'.username = SettingsOf(resolved.config)'.username
    /\ client_config'.password = SettingsOf(resolved.config)'.password

(***************************************************************************)
(* C25, amended: once the registry is loaded no step adds, removes or      *)
(* changes an entry or the default name; an entry holds only the server's  *)
(* name, and the settings it answers are those of the environment at the   *)
(* moment they are read.                                                   *)
(***************************************************************************)
C25_EntriesFixedSettingsLive ==
  [][RegistryKept /\ SettingsReadLive]_vars

\* A registered server answered a host that was set after the load.
C25_Witness ==
  /\ MULTI_CONFIG_INSTANCE.loaded
  /\ "t1" \in MULTI_CONFIG_INSTANCE.configs
  /\ client_config # NoClientConfig
  /\ client_config.client_name = "t1"
  /\ client_config.host = PyStr("h2")

\* The named servers of the list that validate.
ValidNamed == {t \in Declared : validate(t)}

(***************************************************************************)
(* C26, as claimed: a loaded registry holds every named server with        *)
(* complete settings and, beside them, "default" whenever the un-prefixed  *)
(* settings are complete.                                                  *)
(***************************************************************************)
C26_NamedPlusDefault ==
  MULTI_CONFIG_INSTANCE.loaded =>
    /\ \A t \in Declared : Complete(t) => t \in MULTI_CONFIG_INSTANCE.configs
    /\ Complete("default") => "default" \in MULTI_CONFIG_INSTANCE.configs

(***************************************************************************)
(* C26, amended: a loaded registry holds exactly the named servers that    *)
(* validate, and "default" only when no named server was registered and    *)
(* the un-prefixed settings validate; with a named server registered the   *)
(* un-prefixed settings are not loaded.                                    *)
(***************************************************************************)
C26_DefaultOnlyWithoutNamed ==
  MULTI_CONFIG_INSTANCE.loaded =>
    /\ MULTI_CONFIG_INSTANCE.configs \ {"default"} = ValidNamed
    /\ "default" \in MULTI_CONFIG_INSTANCE.configs
         <=> (ValidNamed = {} /\ validate("default"))

\* Named and un-prefixed settings are both complete; only the named is loaded.
C26_Witness ==
  /\ MULTI_CONFIG_INSTANCE.loaded
  /\ "t1" \in MULTI_CONFIG_INSTANCE.configs
  /\ Complete("default")
  /\ "default" \notin MULTI_CONFIG_INSTANCE.configs

(***************************************************************************)
(* C27, as claimed: the probe reports on every tenant of the registry      *)
(* separately, and a failure is a status value, never an exception.        *)
(***************************************************************************)
C27_PerTenantReport ==
  (health.called /\ clickhouse_enabled /\ MULTI_CONFIG_INSTANCE.loaded) =>
    /\ ~health.raised
    /\ health.probed = MULTI_CONFIG_INSTANCE.configs

(***************************************************************************)
(* C27, amended: the probe answers with one status for the whole server.   *)
(* With ClickHouse on it is 200 exactly when the registry loads and the    *)
(* one server that get_config() resolves with no name can be reached, and  *)
(* no other server is probed; with ClickHouse off it is 200 exactly when   *)
(* chDB is on.  A failure is the status 503, never an exception.           *)
(***************************************************************************)
C27_OneStatusForDefault ==
  health.called =>
    /\ ~health.raised
    /\ health.status_code \in {200, 503}
    /\ IF ~clickhouse_enabled
         THEN health.probed = {} /\ (health.status_code = 200 <=> chdb_env.enabled)
         ELSE /\ health.probed \subseteq {MULTI_CONFIG_INSTANCE.default_config_name}
              /\ health.status_code = 200 <=>
                   /\ MULTI_CONFIG_INSTANCE.loaded
                   /\ reachable[MULTI_CONFIG_INSTANCE.default_config_name]

\* Two servers registered, the second one down: the probe answers 200.
C27_Witness ==
  /\ health.called
  /\ MULTI_CONFIG_INSTANCE.configs = {"t1", "t2"}
  /\ MULTI_CONFIG_INSTANCE.default_config_name = "t1"
  /\ reachable["t1"] /\ ~reachable["t2"]
  /\ health.status_code = 200

\* A worker took the call's job and ran execute_query.
EnteredRunning(c) == phase[c] # ""

(***************************************************************************)
(* C28, as claimed: every call that is over went Submitted -> Running ->   *)
(* Completed, Failed or TimedOut: a worker ran its job before the caller   *)
(* got the outcome, also when the outcome is the timeout, and its          *)
(* statement reached the backend at most once.                             *)
(***************************************************************************)
C28_AlwaysThroughRunning ==
  \A c \in Calls :
    /\ pc[c] = "done" => EnteredRunning(c)
    /\ Cardinality(Sent(c)) <= 1

(***************************************************************************)
(* C28, amended: a call that is over got one outcome.  Rows or a failure   *)
(* come from a job that a worker ran.  The timeout comes either while the  *)
(* job runs, or while it is still queued: then the job is cancelled and no *)
(* worker ever runs it.  A statement reaches the backend at most once.     *)
(***************************************************************************)
C28_RanOrCancelledInQueue ==
  \A c \in Calls :
    /\ Cardinality(Sent(c)) <= 1
    /\ future[c].state = "CANCELLED" => ~EnteredRunning(c) /\ Sent(c) = {}
    /\ pc[c] = "done" =>
         /\ outcome[c] # NoResult
         /\ ~TimedOut(c) => EnteredRunning(c) /\ future[c].state = "FINISHED"
         /\ (TimedOut(c) /\ ~EnteredRunning(c)) => future[c].state = "CANCELLED"

\* The timeout came while every worker was busy: the job was never run.
C28_Witness ==
  \E c \in Calls :
    /\ TimedOut(c)
    /\ ~EnteredRunning(c)
    /\ future[c].state = "CANCELLED"
    /\ chdb_running = max_workers

\* The jobs in the work queue that no worker has taken and nobody cancelled.
Queued == {c \in Calls : future[c].state = "PENDING"}

PoolBounded ==
  /\ Cardinality(Running) + chdb_running <= max_workers
  /\ \A c \in Queued : \E i \in 1 .. Len(executor_queue) : executor_queue[i] = c
  /\ Cardinality(Running) + chdb_running = max_workers =>
       \A c \in Calls, connected \in BOOLEAN : ~ENABLED execute_query_start(c, connected)

\* Calls are submitted in the order of their numbers.
AdmittedInOrder ==
  \A c \in Calls :
    (phase[c] = "" /\ phase'[c] # "") => \A d \in Queued : c <= d

(***************************************************************************)
(* C29: at most max_workers jobs run at once; a job submitted while every  *)
(* worker is busy waits in the queue; and a worker that becomes free takes *)
(* the job that was submitted first among those waiting.                   *)
(***************************************************************************)
C29_BoundedPoolFifo ==
  []PoolBounded /\ [][AdmittedInOrder]_vars

\* The first call runs on the last free worker while the second one waits.
C29_Witness ==
  \E c, d \in Calls :
    /\ c < d
    /\ c \in Running
    /\ d \in Queued
    /\ pc[d] = "waiting"
    /\ Cardinality(Running) + chdb_running = max_workers

SlotHeldUntilReturn ==
  \A c \in Calls :
    /\ (c \in Running /\ future'[c].state # "RUNNING") =>
         (future'[c].state = "FINISHED" /\ phase'[c] = "returned")
    /\ (c \in Running /\ ~TimedOut(c) /\ TimedOut(c)') => future'[c].state = "RUNNING"

TimedOutJobBlocksQueue ==
  \A c, d \in Calls :
    (TimedOut(c) /\ c \in Running /\ HeadWaits(d)
       /\ Cardinality(Running) + chdb_running = max_workers) =>
      ~ENABLED execute_query_start(d, TRUE)

(***************************************************************************)
(* C30: the timeout of a running job leaves the job running on its worker; *)
(* the worker is free again only when the job's backend call has returned, *)
(* and until then a queued job that needs this worker cannot start.        *)
(***************************************************************************)
C30_SlotFreedOnlyByReturn ==
  []TimedOutJobBlocksQueue /\ [][SlotHeldUntilReturn]_vars

\* A job runs on after its timeout while the next job waits for a worker.
C30_Witness ==
  \E c, d \in Calls :
    /\ TimedOut(c)
    /\ c \in Running
    /\ HeadWaits(d)
    /\ pc[d] = "waiting"
    /\ Cardinality(Running) + chdb_running = max_workers

(***************************************************************************)
(* C31: create_clickhouse_client returns a client only after the one       *)
(* version probe on it succeeded; when the connection or the probe fails   *)
(* it returns no client and raises the failure with its cause, and it has  *)
(* tried to connect exactly once.                                          *)
(***************************************************************************)
C31_ProbedOrRaised ==
  \A k \in Connections :
    /\ connection[k].attempts <= 1
    /\ connection[k].client # NoClient =>
         /\ connection[k].pc = "returned"
         /\ connection[k].opened /\ connection[k].probed
         /\ connection[k].probes = 1
    /\ connection[k].pc = "returned" => connection[k].client # NoClient
    /\ connection[k].pc = "raised" =>
         /\ connection[k].client = NoClient
         /\ connection[k].attempts = 1
         /\ connection[k].raised.kind = "exception"
         /\ connection[k].raised.msg = IF connection[k].opened THEN "probe" ELSE "handshake"

\* One call returned a probed client, one failed to connect, one failed the probe.
C31_Witness ==
  \E i, j, k \in Connections :
    /\ connection[i].pc = "returned"
    /\ connection[j].pc = "raised" /\ ~connection[j].opened
    /\ connection[k].pc = "raised" /\ connection[k].opened

Drained ==
  shutdown.state = "complete" =>
    \A c \in Calls : future[c].state \in {"NONE", "FINISHED", "CANCELLED"}

NothingNewRuns ==
  shutdown.state # "no" =>
    \A c \in Calls :
      future[c].state = "NONE" => (future'[c].state = "NONE" /\ phase'[c] = "")

(***************************************************************************)
(* C32: when shutdown has returned, every job that was running or queued   *)
(* is finished; and once shutdown has begun no new job gets a future or    *)
(* is run.                                                                 *)
(***************************************************************************)
C32_DrainsAndRefuses ==
  []Drained /\ [][NothingNewRuns]_vars

\* Shutdown found a queued job and ran it to its end; a later call was refused.
C32_Witness ==
  \E c, d \in Calls :
    /\ shutdown.state = "complete"
    /\ c \in shutdown.found
    /\ future[c].state = "FINISHED"
    /\ future[c].result = QueryResult
    /\ pc[d] = "done"
    /\ future[d].state = "NONE"
    /\ outcome[d] = Raised("RuntimeError", MSG_UNEXPECTED)

\* The metadata of a page: table comments and column data.
MetadataKinds == {"table comments", "column data"}
MetadataQueries == SelectSeq(listing.queries, LAMBDA q : q.table = "system.columns")

(***************************************************************************)
(* C33: the queries a listing sends for per-table metadata are at most one *)
(* per kind of metadata, however many tables it returns; they are never    *)
(* one query per table.                                                    *)
(***************************************************************************)
C33_BulkMetadata ==
  listing.called =>
    /\ Len(MetadataQueries) <= Cardinality(MetadataKinds)
    /\ Len(listing.tables) > 1 => Len(MetadataQueries) < Len(listing.tables)

(***************************************************************************)
(* C34: every statement execute_query sends carries as readonly the value  *)
(* get_readonly_setting returned for that execution's connection, and the  *)
(* negotiator has returned by the time the statement is sent.              *)
(***************************************************************************)
C34_SentValueIsNegotiated ==
  \A s \in backend_log :
    /\ read_only[s.call] # Unset
    /\ s.readonly = read_only[s.call]
    /\ s.readonly = get_readonly_setting(server_readonly)

\* A statement was sent with a value other than "1".
C34_Witness ==
  \E s \in backend_log : s.readonly = read_only[s.call] /\ s.readonly # "1"

\* The entries of the work queue that belong to call c.
InQueue(c) == \E i \in 1 .. Len(executor_queue) : executor_queue[i] = c

\* The caller's wait ends while no worker has taken the job: it is cancelled.
TimeoutCancelsQueued ==
  \A c \in Calls :
    (pc[c] = "waiting" /\ future[c].state = "PENDING" /\ pc'[c] = "done") =>
      /\ TimedOut(c)'
      /\ future'[c].state = "CANCELLED"

\* A cancelled job stays cancelled; the worker that takes its entry from the
\* queue drops it: no statement is sent and no worker becomes busy.
CancelledIsDropped ==
  \A c \in Calls :
    future[c].state = "CANCELLED" =>
      /\ future'[c] = future[c]
      /\ phase'[c] = phase[c]
      /\ Sent(c)' = Sent(c)
      /\ (InQueue(c) /\ ~InQueue(c)') => Running' = Running

CancelledNeverRan ==
  \A c \in Calls :
    future[c].state = "CANCELLED" =>
      /\ ~EnteredRunning(c)
      /\ Sent(c) = {}
      /\ c \notin Running
      /\ c \notin Queued

(***************************************************************************)
(* C35: a job that no worker has taken when its caller's timeout elapses   *)
(* is cancelled and is no longer among the jobs that wait for a worker:    *)
(* the backend is never invoked for it and it never makes a worker busy.   *)
(***************************************************************************)
C35_QueuedJobCancelled ==
  []CancelledNeverRan /\ [][TimeoutCancelsQueued /\ CancelledIsDropped]_vars

\* A cancelled job's entry has been taken from the queue and dropped while the
\* job behind it waits or runs.
C35_Witness ==
  \E c \in Calls :
    /\ future[c].state = "CANCELLED"
    /\ ~InQueue(c)
    /\ TimedOut(c)
    /\ \E d \in Calls : d # c /\ future[d].state \in {"PENDING", "RUNNING"}

\* The same for run_chdb_select_query: a cancelled chDB job never enters
\* client.query.
C35_ChdbCancelledNeverRan ==
  \A d \in ChdbCalls :
    chdb[d].future.state = "CANCELLED" =>
      /\ chdb[d].response = NoResponse
      /\ chdb[d].outcome = StatusError(MSG_CHDB_TIMED_OUT)
      /\ \A response \in ChdbResponses : ~ENABLED execute_chdb_query_leave(d, response)
      /\ ~ENABLED execute_chdb_query_enter(d)

\* The future holds what execute_chdb_query returned for a query that chDB ran.
HoldsRows(d) ==
  /\ chdb[d].future.state = "FINISHED"
  /\ chdb[d].future.result \in {RowList, EmptyList}

\* A call ends: unless its job came back with rows, the caller gets the
\* dictionary with status "error" and a message.
EndsWithStatusError ==
  \A d \in ChdbCalls :
    (chdb[d].pc # "done" /\ chdb'[d].pc = "done") =>
      IF HoldsRows(d)
        THEN chdb'[d].outcome = chdb[d].future.result
        ELSE /\ chdb'[d].outcome.type = "StatusError"
             /\ chdb'[d].outcome.msg # ""

NeverRaises ==
  \A d \in ChdbCalls :
    /\ chdb[d].outcome.kind # "exception"
    /\ chdb[d].pc = "done" => chdb[d].outcome.kind = "value"

C36_NotEnabledReached ==
  \E d \in ChdbCalls :
    /\ ~chdb_env.enabled
    /\ chdb[d].future.result.kind = "exception"
    /\ chdb[d].outcome = StatusError(MSG_CHDB_UNEXPECTED)

SentStatement(kind) ==
  \E i \in 1 .. Len(last_memory.statements) : last_memory.statements[i] = kind

(***************************************************************************)
(* C37: delete_memory(k) sends no delete statement when there is no entry  *)
(* for k or when the existence check failed, and save_memory sends no      *)
(* INSERT when creating the table failed; the table is then as it was      *)
(* before the call.                                                        *)
(***************************************************************************)
C37_NoNeedlessWrite ==
  LET k == last_memory.key IN
  /\ (last_memory.op = "delete"
        /\ (WhereKey(last_memory.before.rows, k) = <<>>
              \/ last_memory.message = "Unexpected error")) =>
       /\ ~SentStatement("DELETE")
       /\ user_memory = last_memory.before
  /\ (last_memory.op = "save"
        /\ last_memory.message = "Failed to create user_memory table") =>
       /\ ~SentStatement("INSERT")
       /\ user_memory = last_memory.before

\* delete_memory found nothing under its key in a table that holds entries of
\* another key, and left them there.
C37_Witness ==
  /\ last_memory.op = "delete"
  /\ last_memory.status = "not_found"
  /\ last_memory.statements = <<"SELECT">>
  /\ user_memory.rows # <<>>
  /\ user_memory = last_memory.before

\* save_memory gave up after the failed CREATE TABLE, on a table with entries.
C37_SaveGaveUp ==
  /\ last_memory.op = "save"
  /\ last_memory.statements = <<"CREATE">>
  /\ user_memory.rows # <<>>

(***************************************************************************)
(* C38: the settings that create_clickhouse_client passes to get_client    *)
(* are never those of a server whose ENABLED setting is false: such a      *)
(* server is not in the registry, or no configuration is resolved to it.   *)
(***************************************************************************)
C38_NoDisabledTenant ==
  /\ resolved.config # NoName => enabled(resolved.config)
  /\ client_config # NoClientConfig => enabled(client_config.client_name)

\* The first name of CLICKHOUSE_SERVERS that was registered.
FirstValidNamed ==
  LET at == {i \in 1 .. Len(CLICKHOUSE_SERVERS) : CLICKHOUSE_SERVERS[i] \in ValidNamed}
  IN CLICKHOUSE_SERVERS[Min(at)]

(***************************************************************************)
(* C39: in a constructed registry default_config_name is None exactly when *)
(* configs is empty, and otherwise it is a key of configs: the first named *)
(* server that validated, else "default".  get_config(name) returns an     *)
(* entry of configs, or raises ValueError, which it does only when configs *)
(* is empty.                                                               *)
(***************************************************************************)
C39_DefaultNameIsKey ==
  MULTI_CONFIG_INSTANCE.loaded =>
    LET multi == MULTI_CONFIG_INSTANCE IN
    /\ multi.default_config_name = NoName <=> multi.configs = {}
    /\ multi.configs # {} =>
         /\ multi.default_config_name \in multi.configs
         /\ multi.default_config_name =
              IF ValidNamed # {} THEN FirstValidNamed ELSE "default"
    /\ \A name \in AskedNames :
         LET r == multi_get_config(multi, name) IN
         IF r.error = NoException
           THEN r.config \in multi.configs
           ELSE r.error.type = "ValueError" /\ r.config = NoName /\ multi.configs = {}
    /\ resolved.name # Unasked =>
         IF resolved.error = NoException
           THEN resolved.config \in multi.configs
           ELSE resolved.error.type = "ValueError" /\ multi.configs = {}

\* An empty registry was constructed and get_config raised.
C39_Witness ==
  /\ MULTI_CONFIG_INSTANCE.loaded
  /\ MULTI_CONFIG_INSTANCE.configs = {}
  /\ MULTI_CONFIG_INSTANCE.default_config_name = NoName
  /\ resolved.name # Unasked
  /\ resolved.error = NoValidConfig

\* A name that is not registered was resolved to the first named server.
C39_FallbackReached ==
  /\ MULTI_CONFIG_INSTANCE.loaded
  /\ Cardinality(MULTI_CONFIG_INSTANCE.configs) = 2
  /\ resolved.name = UnknownName
  /\ resolved.config = CLICKHOUSE_SERVERS[1]
====
